---------------------------- MODULE Spec2Model ----------------------------
(***************************************************************************)
(* A model of the bond trading back office: the generic Service /          *)
(* ServiceListener publish-subscribe base (soa.hpp), the position and risk *)
(* stages, the GUI rate limiter, the streaming and algo execution stages,  *)
(* the inquiry adapter, and the listeners and connectors that wire them    *)
(* (listeners.hpp, connectors.hpp, main.cpp).                              *)
(*                                                                         *)
(* The program is single threaded and every stage operation is a plain    *)
(* C++ call, so one action of the model is one top-level call (a line read *)
(* by a connector, a direct call of a stage method) together with the      *)
(* whole synchronous cascade it triggers.  The cascade is computed by      *)
(* operators that thread an execution state `st` through the calls in the  *)
(* order the code makes them; `trace` keeps the chronological record of    *)
(* the calls and effects.                                                  *)
(***************************************************************************)
EXTENDS Integers, Sequences, FiniteSets, TLC

VARIABLES
    listeners,          \* Service::listeners of every service instance
    name_p,             \* PositionService::name_p (pos_service)
    data,               \* RiskService::data (risk_service_instance)
    now,                \* system_clock, in milliseconds
    service_start_time, \* GUIService::service_start_time
    last_quote_time,    \* GUIService::last_quote_time
    counter,            \* AlgoExecution<T>::counter (static)
    inquiries,          \* InquiryService: latest Inquiry per identifier
    trace,              \* chronological record of calls and effects
    crashed,            \* the process was aborted (signal / std::terminate)
    result,             \* what the last top-level call gave its caller
    seq                 \* number of top-level inputs processed so far

vars == <<listeners, name_p, data, now, service_start_time,
          last_quote_time, counter, inquiries, trace, crashed, result, seq>>

---------------------------------------------------------------------------
(* Bounds of the model.  MaxInputs bounds the calls and lines of a stage,  *)
(* MaxQuotes the quotes met by the streaming stage and the prices flow,    *)
(* MaxArrivals the quotes handed to the GUI service, MaxFlowTrades and     *)
(* MaxFlowInputs the trades and the inputs of main()'s flows, MaxBooks     *)
(* the calls that hand an order book to a service, MaxLines the lines read *)
(* from marketdata.txt and MaxShortLines those with fewer than ten prices, *)
(* MaxLag the milliseconds the clock gains between two readings of one     *)
(* call, MaxJunkChars the chars a parse reads beyond the end of its text.  *)

MaxListeners == 3
MaxInputs == 2
MaxQuotes == 2
MaxArrivals == 3
MaxFlowInputs == 3
MaxFlowTrades == 1
MaxTime == 900
MaxLag == 1
MaxBooks == 3
MaxLines == 2
MaxShortLines == 1
MaxInquiries == 3
MaxCodecCalls == 1
MaxJunkChars == 2

---------------------------------------------------------------------------
(* Static data.                                                            *)

Tickers == {"B02y", "B03y", "B05y", "B07y", "B10y", "B20y", "B30y"}

Books == <<"TRSY1", "TRSY2", "TRSY3">>

BookSet == {Books[i] : i \in 1..Len(Books)}

\* Service instances (the names main.cpp gives them); "svc" is a Service
\* of an arbitrary value type, observed through the probe listeners.
Services == {"svc", "trade_booking_service", "pos_service",
             "risk_service_instance", "pricing_service",
             "bond_algo_streaming_service", "streaming_service",
             "bond_algo_execution_service_ins", "algo_execution_service_2",
             "inquiry_service", "mrkt_data_service_ins",
             "execution_service_ins"}

\* Listeners that only observe: user implementations of ServiceListener<V>.
Probes == {"L1", "L2"}

\* The listener list of every service as main() builds it for the trades,
\* prices, market data and inquiry flows.  main() registers no listener
\* with its BondAlgoExecutionService; "algo_execution_service_2" is a
\* second instance of that class.  Of the market data flow the wiring is
\* kept up to the listeners of the execution service: the add-callback
\* of trade_booking_listener_ins is empty, so the booking, position and
\* risk services built behind it are never entered.
DefaultWiring ==
    [s \in Services |->
        CASE s = "trade_booking_service" -> <<"position_listener">>
          [] s = "pos_service" -> <<"history_position_listener",
                                    "risk_service_listener">>
          [] s = "risk_service_instance" -> <<"history_risk_listener">>
          [] s = "pricing_service" -> <<"gui_listener",
                                        "algo_streaming_listener">>
          [] s = "bond_algo_streaming_service" -> <<"streaming_listener">>
          [] s = "streaming_service" -> <<"hist_streaming_listener">>
          [] s = "inquiry_service" -> <<"all_inquiry_hist_listner">>
          [] s = "mrkt_data_service_ins" ->
                <<"bond_algo_execution_listener_ins">>
          [] s = "execution_service_ins" ->
                <<"trade_booking_listener_ins",
                  "execution_hist_service_listener">>
          [] OTHER -> << >>]

---------------------------------------------------------------------------
(* Execution state threaded through one top-level call.                    *)

Ev(ev, who, arg) == [ev |-> ev, who |-> who, arg |-> arg]

Emit(st, e) == [st EXCEPT !.trace = Append(@, e)]

\* What the system clock gains between two successive readings of it
\* during one call, in milliseconds: anything up to MaxLag.
ClockLags == 0..MaxLag

\* The courses of the clock during a call that reads it n times: its gain
\* between each reading and the next.  Every call meets a course of its
\* own; the time that passes between two calls is that of Tick and Pause.
ClockScripts(n) == [1..(n - 1) -> ClockLags]

\* The course of a clock that gains nothing during the call.
NoLags(n) == [k \in 1..(n - 1) |-> 0]

\* `ub` is the outcome this build gives to undefined behaviour met during
\* the call; `throwers` are the probe listeners that fail on this event;
\* `lags` is the course the clock takes during the call.
CurAt(ub, throwers, lags) ==
    [listeners |-> listeners, name_p |-> name_p, data |-> data,
     now |-> now, last_quote_time |-> last_quote_time,
     counter |-> counter, inquiries |-> inquiries,
     trace |-> trace, crashed |-> crashed, exc |-> "none",
     reads |-> 0, lags |-> lags, ub |-> ub, throwers |-> throwers]

\* The state at the start of a call that reads the clock once at most.
Cur(ub, throwers) == CurAt(ub, throwers, << >>)

\* Outcomes of undefined behaviour: the process is aborted, or execution
\* goes on and every read outside an object yields what the memory holds
\* at the place read.  `junk` is what it holds at each slot read beyond a
\* container (zero, or something else), `bytes` what it holds at each
\* char read beyond the terminator of a text (any value of a char, which
\* is signed in this build).
JunkValues == {0, 13}

JunkBytes == -128..127

Slots == 0..9

CharIdx == 0..6

UB(abort, junk, bytes) == [abort |-> abort, junk |-> junk, bytes |-> bytes]

NoJunk == [i \in Slots |-> 0]

NoBytes == [i \in CharIdx |-> 0]

NoUB == UB(FALSE, NoJunk, NoBytes)

\* The contents of the slots in `read`, every other slot left at zero.
JunkOn(read) ==
    {[i \in Slots |-> IF i \in read THEN v[i] ELSE 0] :
        v \in [read -> JunkValues]}

\* The outcomes of a call whose undefined behaviour reads nothing.
UBAborts == {UB(a, NoJunk, NoBytes) : a \in BOOLEAN}

\* The outcomes of a call whose undefined behaviour reads the first n
\* slots: an abort, or one content of these slots.
UBReads(n) ==
    {UB(TRUE, NoJunk, NoBytes)}
    \cup {UB(FALSE, j, NoBytes) : j \in JunkOn(0..(n - 1))}

Abort(st, where) ==
    [Emit(st, Ev("abort", where, "UB")) EXCEPT !.crashed = TRUE]

Stopped(st) == st.crashed \/ st.exc # "none"

\* std::chrono::system_clock::now() in milliseconds: the state after the
\* reading; the value read is its `now`.  `reads` counts the readings the
\* call has made; each reading after the first finds the clock advanced by
\* a gain of its own.
system_clock_now(st) ==
    LET k == st.reads
        gain == IF 1 <= k /\ k <= Len(st.lags) THEN st.lags[k] ELSE 0
    IN  [st EXCEPT !.now = @ + gain, !.reads = k + 1]

---------------------------------------------------------------------------
(* The fractional price codec (utils.hpp).  A text is a sequence of        *)
(* characters; decimal prices are kept in 1/256 of a point.                *)

DigitChars == <<"0", "1", "2", "3", "4", "5", "6", "7", "8", "9">>

\* The value of a char: ASCII for the characters the texts are made of.
CharCode(c) ==
    IF \E d \in 1..10 : DigitChars[d] = c
    THEN 47 + (CHOOSE d \in 1..10 : DigitChars[d] = c)
    ELSE CASE c = "+" -> 43
           [] c = "-" -> 45
           [] c = "." -> 46
           [] c = "x" -> 120

\* cstr[i] of price_string.c_str(): the i-th char (from 0), the
\* terminator right after the last one, and whatever the memory holds
\* beyond it.
CStrAt(st, text, i) ==
    IF i < Len(text) THEN CharCode(text[i + 1])
    ELSE IF i = Len(text) THEN 0 ELSE st.ub.bytes[i]

\* Where ParsePriceFormat starts reading the fraction.
PriceOffset(text) == IF Len(text) > 0 /\ text[1] = "9" THEN 3 ELSE 4

\* The parse reads past the terminator of the text.
ReadsPastEnd(text) == PriceOffset(text) + 2 > Len(text)

\* The indices of cstr that the parse reads beyond the terminator.
BeyondEnd(text) ==
    {i \in PriceOffset(text)..(PriceOffset(text) + 2) : i > Len(text)}

\* The outcome of a parse of `text` that goes on: `v` is what the memory
\* holds at the chars it reads beyond the terminator.
UBParse(text, v) ==
    UB(FALSE, NoJunk,
       [i \in CharIdx |-> IF i \in BeyondEnd(text) THEN v[i] ELSE 0])

\* FormatParser::ParsePriceFormat: 99 when the text starts with '9' and 100
\* otherwise, plus two digits of 1/32 and one digit of 1/256, each taken
\* as (char - '0') without a check.
ParsePriceFormat(st, text) ==
    LET mainPart == IF PriceOffset(text) = 3 THEN 99 ELSE 100
        offset == PriceOffset(text)
        first == (CStrAt(st, text, offset) - 48) * 10
                 + (CStrAt(st, text, offset + 1) - 48)
        second == CStrAt(st, text, offset + 2) - 48
    IN  mainPart * 256 + first * 8 + second

\* FormatParser::ParseOrderBook of the fields of a line: the ticker and
\* the prices of the fields that follow it, ten at most and fewer when
\* the line is shorter; nothing for a line without a field.
ParseOrderBook(st, splitted) ==
    IF Len(splitted) = 0 THEN [ticker |-> "", px |-> << >>]
    ELSE LET count == IF Len(splitted) < 11 THEN Len(splitted) - 1 ELSE 10
         IN  [ticker |-> splitted[1],
              px |-> [i \in 1..count |->
                         ParsePriceFormat(st, splitted[i + 1])]]

---------------------------------------------------------------------------
(* Position (positionservice.hpp).                                         *)

\* Position::Position: every book of the fixed three starts at zero.
NewPosition(product) ==
    [product |-> product, positions |-> [b \in BookSet |-> 0]]

\* PositionService::PositionService: one Position per catalog ticker.
NewNameP == [t \in Tickers |-> NewPosition(t)]

\* name_p.find(ticker)->second: a reference to the stored Position, or the
\* reference obtained by dereferencing end().
PositionRef(st, ticker) ==
    IF ticker \in DOMAIN st.name_p
    THEN [valid |-> TRUE, key |-> ticker]
    ELSE [valid |-> FALSE, key |-> ticker]

\* The place of a book among the three.
BookIndex(b) == CHOOSE i \in 1..Len(Books) : Books[i] = b

\* What a reader sees through the reference of end(): for each book what
\* the memory holds where its quantity is looked for.
JunkPosition(st) ==
    [product |-> "<junk>",
     positions |-> [b \in BookSet |-> st.ub.junk[BookIndex(b) - 1]]]

\* The Position a reference designates, as a reader sees it.
Deref(st, ref) ==
    IF ref.valid THEN st.name_p[ref.key] ELSE JunkPosition(st)

\* Position::GetPosition: positions.find(book)->second.
GetPosition(st, pos, book) ==
    IF book \in DOMAIN pos.positions THEN pos.positions[book]
    ELSE st.ub.junk[0]

RECURSIVE SumBooks(_, _, _)
SumBooks(st, pos, i) ==
    IF i > Len(Books) THEN 0
    ELSE GetPosition(st, pos, Books[i]) + SumBooks(st, pos, i + 1)

\* Position::GetAggregatePosition: the sum over the three books.
GetAggregatePosition(st, pos) == SumBooks(st, pos, 1)

\* What operator[] would do in place of find(): create the missing book.
UpdatePositionInserting(st, ticker, book, quantity, side) ==
    LET old == st.name_p[ticker].positions
        cur == IF book \in DOMAIN old THEN old[book] ELSE 0
        new == IF side = "BUY" THEN cur + quantity ELSE cur - quantity
    IN  [st EXCEPT !.name_p[ticker].positions =
            [b \in (DOMAIN old) \cup {book} |->
                IF b = book THEN new ELSE old[b]]]

\* An update that moves every book of the Position by the quantity.
UpdatePositionEveryBook(st, ticker, book, quantity, side) ==
    IF book \in DOMAIN st.name_p[ticker].positions
    THEN Emit([st EXCEPT !.name_p[ticker].positions =
                    [b \in DOMAIN @ |->
                        IF side = "BUY" THEN @[b] + quantity
                        ELSE @[b] - quantity]],
              Ev("UpdatePosition", ticker,
                 [book |-> book, quantity |-> quantity, side |-> side]))
    ELSE IF st.ub.abort
         THEN Abort(st, "UpdatePosition")
         ELSE Emit(st, Ev("stray write", "UpdatePosition", book))

\* A sign slip: the quantity is added whatever the side.
UpdatePositionAlwaysAdding(st, ticker, book, quantity, side) ==
    IF book \in DOMAIN st.name_p[ticker].positions
    THEN Emit([st EXCEPT !.name_p[ticker].positions[book] = @ + quantity],
              Ev("UpdatePosition", ticker,
                 [book |-> book, quantity |-> quantity, side |-> side]))
    ELSE IF st.ub.abort
         THEN Abort(st, "UpdatePosition")
         ELSE Emit(st, Ev("stray write", "UpdatePosition", book))

\* Position::UpdatePosition on the Position of `ticker`.  For a book that
\* is not a key, find() returns end() and the += / -= writes through it:
\* undefined behaviour, which aborts the process or writes outside the
\* three stored quantities.
UpdatePosition(st, ticker, book, quantity, side) ==
    IF book \in DOMAIN st.name_p[ticker].positions
    THEN Emit([st EXCEPT !.name_p[ticker].positions[book] =
                    IF side = "BUY" THEN @ + quantity ELSE @ - quantity],
              Ev("UpdatePosition", ticker,
                 [book |-> book, quantity |-> quantity, side |-> side]))
    ELSE IF st.ub.abort
         THEN Abort(st, "UpdatePosition")
         ELSE Emit(st, Ev("stray write", "UpdatePosition", book))


\* PositionService::GetData: name_p.find(key)->second, with no test for
\* end().  The caller gets a reference; for an absent key it is the invalid
\* reference of end() (or the process is aborted by a checking build).
PositionGetData(st, key) ==
    IF key \in DOMAIN st.name_p THEN "reference"
    ELSE IF st.ub.abort THEN "abort" ELSE "invalid reference"

---------------------------------------------------------------------------
(* Risk (riskservice.hpp).                                                 *)

\* The per-unit sensitivity AddPosition gives every PV01, in hundredths.
PV01Hundredths == 2

\* RiskService::GetData: data.find(key)->second on the stage's own map.
RiskGetData(st, key) ==
    IF key \in DOMAIN st.data THEN "reference"
    ELSE IF st.ub.abort THEN "abort" ELSE "invalid reference"

\* RiskService::GetBucketedRisk: a function returning const PV01<T>& whose
\* body is empty.  Control flows off its end without a return: the caller
\* gets whatever reference the registers hold, or the process aborts.
GetBucketedRisk(st, sector) ==
    IF st.ub.abort THEN "abort" ELSE "invalid reference"

---------------------------------------------------------------------------
(* Record sinks (connectors.hpp).                                          *)

\* PositionConnector::Publish: one line (time, ticker, the three books,
\* their sum), read from the Position through the reference it was given.
PositionConnectorPublish(st, ref) ==
    LET s1 == system_clock_now(st)
    IN  IF ~ref.valid /\ st.ub.abort
        THEN Abort(s1, "PositionConnector::Publish")
        ELSE
         LET pos == Deref(st, ref)
             p1 == GetPosition(st, pos, "TRSY1")
             p2 == GetPosition(st, pos, "TRSY2")
             p3 == GetPosition(st, pos, "TRSY3")
         IN  Emit(s1, Ev("PositionConnector::Publish", pos.product,
                         [time |-> s1.now, p1 |-> p1, p2 |-> p2, p3 |-> p3,
                          aggPos |-> p1 + p2 + p3]))

\* RiskConnector::Publish: one line (time, ticker, pv01 * quantity); the
\* total is kept in hundredths.
RiskConnectorPublish(st, pv) ==
    LET s1 == system_clock_now(st)
    IN  Emit(s1, Ev("RiskConnector::Publish", pv.product,
                    [time |-> s1.now, totalRisk |-> pv.pv01 * pv.quantity]))

\* GUIConnector::Publish: one line (time, ticker, mid, spread).
GUIConnectorPublish(st, price) ==
    LET s1 == system_clock_now(st)
    IN  Emit(s1, Ev("GUIConnector::Publish", price.product,
                    [time |-> s1.now, mid |-> price.mid,
                     spread |-> price.spread]))

\* StreamingConnector::Publish: one line (time, ticker, bid, offer).
StreamingConnectorPublish(st, stream) ==
    LET s1 == system_clock_now(st)
    IN  Emit(s1, Ev("StreamingConnector::Publish", stream.product,
                    [time |-> s1.now, bid |-> stream.bidOrder.price,
                     offer |-> stream.offerOrder.price]))

\* The name AllInquiriesConnector::Publish writes for a state: its if-chain
\* names RECEIVED, QUOTED, DONE and REJECTED and leaves the string empty
\* for any other value.
StateName(state) ==
    IF state \in {"RECEIVED", "QUOTED", "DONE", "REJECTED"} THEN state
    ELSE ""

\* AllInquiriesConnector::Publish: one line (time, TID_ and the inquiry
\* id, ticker, side, price, state name).
AllInquiriesConnectorPublish(st, inq) ==
    LET s1 == system_clock_now(st)
    IN  Emit(s1, Ev("AllInquiriesConnector::Publish", inq.inquiryId,
                    [time |-> s1.now,
                     id |-> <<"T", "I", "D", "_">> \o inq.inquiryId,
                     product |-> inq.product,
                     side |-> inq.side, price |-> inq.price,
                     state |-> StateName(inq.state)]))

\* ExecutionConnector::Publish: one line (time, ticker, TID_ and the order
\* id, MarketOrder, BUY for a BID order and SELL otherwise, price, visible
\* and hidden quantity).
ExecutionConnectorPublish(st, order) ==
    LET s1 == system_clock_now(st)
    IN  Emit(s1, Ev("ExecutionConnector::Publish", order.product,
                    [time |-> s1.now,
                     orderId |-> <<"T", "I", "D", "_">> \o order.orderId,
                     orderType |-> "MarketOrder",
                     side |-> IF order.side = "BID" THEN "BUY" ELSE "SELL",
                     price |-> order.price,
                     visibleQuantity |-> order.visibleQuantity,
                     hiddenQuantity |-> order.hiddenQuantity]))

\* HistoricalDataService::PersistData of the record sinks: hands the value
\* to the connector the service was built with.
PersistData(st, connector, value) ==
    CASE connector = "position_connector_instance" ->
            PositionConnectorPublish(st, value)
      [] connector = "risk_connector" -> RiskConnectorPublish(st, value)
      [] connector = "streaming_connector" ->
            StreamingConnectorPublish(st, value)
      [] connector = "all_inquiries_connector" ->
            AllInquiriesConnectorPublish(st, value)
      [] connector = "execution_connector" ->
            ExecutionConnectorPublish(st, value)

---------------------------------------------------------------------------
(* GUIService (services.hpp).                                              *)

\* The threshold of GUIService::ProvideData, in milliseconds.
GUIThrottle == 300

\* GUIService::ProvideData up to its reading of the clock: the state after
\* the reading, with the quote and the time read put on the trace.
ProvideDataReceived(st, price) ==
    LET s1 == system_clock_now(st)
    IN  Emit(s1, Ev("ProvideData", "gui_service",
                    [time |-> s1.now, price |-> price]))

\* A limiter that also lets through a quote arriving exactly on the
\* threshold (>= in place of >).
ProvideDataInclusive(st, price) ==
    LET s1 == ProvideDataReceived(st, price)
        current_epic == s1.now
    IN  IF current_epic - s1.last_quote_time >= GUIThrottle
        THEN GUIConnectorPublish(
                 [s1 EXCEPT !.last_quote_time = current_epic], price)
        ELSE s1

\* A limiter that keeps one window per instrument: the time at which the
\* last delivered quote of the quote's own instrument was received
\* decides.
ProvideDataPerInstrument(st, price) ==
    LET s1 == ProvideDataReceived(st, price)
        current_epic == s1.now
        mine == {k \in 2..Len(st.trace) :
                    /\ st.trace[k].ev = "GUIConnector::Publish"
                    /\ st.trace[k].who = price.product
                    /\ st.trace[k - 1].ev = "ProvideData"}
        last == IF mine = {} THEN 0
                ELSE st.trace[(CHOOSE k \in mine : \A j \in mine : j <= k)
                              - 1].arg.time
    IN  IF current_epic - last > GUIThrottle
        THEN GUIConnectorPublish(
                 [s1 EXCEPT !.last_quote_time = current_epic], price)
        ELSE s1

\* A limiter whose window is restarted by every quote, dropped ones too.
ProvideDataRestarting(st, price) ==
    LET s1 == ProvideDataReceived(st, price)
        current_epic == s1.now
    IN  IF current_epic - s1.last_quote_time > GUIThrottle
        THEN GUIConnectorPublish(
                 [s1 EXCEPT !.last_quote_time = current_epic], price)
        ELSE [s1 EXCEPT !.last_quote_time = current_epic]

\* GUIService::ProvideData: reads the clock, and when more than 300 ms
\* have passed since last_quote_time, sets last_quote_time to the time it
\* read and hands the quote to GUIConnector::Publish, which reads the
\* clock again for the record.
ProvideData(st, price) ==
    LET s1 == ProvideDataReceived(st, price)
        current_epic == s1.now
    IN  IF current_epic - s1.last_quote_time > GUIThrottle
        THEN GUIConnectorPublish(
                 [s1 EXCEPT !.last_quote_time = current_epic], price)
        ELSE s1

---------------------------------------------------------------------------
(* Services and listeners (soa.hpp, positionservice.hpp, riskservice.hpp,  *)
(* listeners.hpp).                                                         *)

RECURSIVE Notify(_, _, _)

\* RiskService::AddPosition: a fresh PV01 from the aggregate of the
\* Position it is handed, notified to the risk listeners.  Nothing is put
\* into RiskService::data.
\* An AddPosition that flattens the Position it was handed once the
\* measure is notified.
AddPositionFlattening(st, ref) ==
    IF ~ref.valid /\ st.ub.abort THEN Abort(st, "RiskService::AddPosition")
    ELSE LET pos == Deref(st, ref)
             aggregate == GetAggregatePosition(st, pos)
             curr_pv01 == [product |-> pos.product, pv01 |-> PV01Hundredths,
                           quantity |-> aggregate]
             s1 == Notify("risk_service_instance", curr_pv01,
                          Emit(st, Ev("AddPosition", pos.product, curr_pv01)))
         IN  IF ref.valid /\ ~Stopped(s1)
             THEN [s1 EXCEPT !.name_p[ref.key] = NewPosition(ref.key)]
             ELSE s1

\* An AddPosition that takes the quantity of the first book for the
\* quantity of the measure.
AddPositionFirstBook(st, ref) ==
    IF ~ref.valid /\ st.ub.abort THEN Abort(st, "RiskService::AddPosition")
    ELSE LET pos == Deref(st, ref)
             aggregate == GetPosition(st, pos, "TRSY1")
             curr_pv01 == [product |-> pos.product, pv01 |-> PV01Hundredths,
                           quantity |-> aggregate]
         IN  Notify("risk_service_instance", curr_pv01,
                    Emit(st, Ev("AddPosition", pos.product, curr_pv01)))

\* RiskService::AddPosition: the measure of the position (its product,
\* 0.02 a unit, its aggregate) is notified; nothing is stored.
AddPosition(st, ref) ==
    IF ~ref.valid /\ st.ub.abort THEN Abort(st, "RiskService::AddPosition")
    ELSE LET pos == Deref(st, ref)
             aggregate == GetAggregatePosition(st, pos)
             curr_pv01 == [product |-> pos.product, pv01 |-> PV01Hundredths,
                           quantity |-> aggregate]
         IN  Notify("risk_service_instance", curr_pv01,
                    Emit(st, Ev("AddPosition", pos.product, curr_pv01)))

\* An AddTrade that notifies its listeners before it updates the Position.
AddTradeNotifyingFirst(st, trade) ==
    LET ticker == trade.product
    IN  IF ticker \in DOMAIN st.name_p
        THEN LET s1 == Notify("pos_service", PositionRef(st, ticker), st)
             IN  IF Stopped(s1) THEN s1
                 ELSE UpdatePosition(s1, ticker, trade.book,
                                     trade.quantity, trade.side)
        ELSE Notify("pos_service", PositionRef(st, ticker),
                    Emit(st, Ev("cout", "AddTrade", ticker)))

\* An AddTrade that notifies its listeners twice.
AddTradeNotifyingTwice(st, trade) ==
    LET ticker == trade.product
        s1 == IF ticker \in DOMAIN st.name_p
              THEN UpdatePosition(st, ticker, trade.book, trade.quantity,
                                  trade.side)
              ELSE Emit(st, Ev("cout", "AddTrade", ticker))
        s2 == IF Stopped(s1) THEN s1
              ELSE Notify("pos_service", PositionRef(s1, ticker), s1)
    IN  IF Stopped(s2) THEN s2
        ELSE Notify("pos_service", PositionRef(s2, ticker), s2)

\* PositionService::AddTrade.  The Notify that ends it is outside the
\* if / else: it also runs, on name_p.find(ticker)->second, when the
\* ticker was not found.
AddTrade(st, trade) ==
    LET ticker == trade.product
        s1 == IF ticker \in DOMAIN st.name_p
              THEN UpdatePosition(st, ticker, trade.book, trade.quantity,
                                  trade.side)
              ELSE Emit(st, Ev("cout", "AddTrade", ticker))
    IN  IF Stopped(s1) THEN s1
        ELSE Notify("pos_service", PositionRef(s1, ticker), s1)

\* TradeBookingService::OnMessage: books the trade and notifies the
\* listeners of the booking service.
TradeBookingOnMessage(st, trade) ==
    Notify("trade_booking_service", trade,
           Emit(st, Ev("OnMessage", "trade_booking_service", trade)))

\* ExecutionService::ExecuteOrder: takes the order for the market and
\* notifies the listeners of the execution service.
ExecuteOrder(st, order, market) ==
    Notify("execution_service_ins", order,
           Emit(st, Ev("ExecuteOrder", "execution_service_ins",
                       [order |-> order, market |-> market])))

\* MarketDataService::ProcessOrderBook: takes the book and notifies the
\* listeners of the market data service.
ProcessOrderBook(st, obook) ==
    Notify("mrkt_data_service_ins", obook,
           Emit(st, Ev("ProcessOrderBook", "mrkt_data_service_ins", obook)))

---------------------------------------------------------------------------
(* The prices flow: BondAlgoStreamingService (services.hpp).  Quotes and   *)
(* stream legs are priced in 1/512 of a point.                             *)

\* The visible and the hidden quantity PublishPrice gives both legs.
StreamQuantity == 1000000

PriceStreamOrder(price, visible, hidden, side) ==
    [price |-> price, visible |-> visible, hidden |-> hidden, side |-> side]

\* A PublishPrice that notifies only when the GUI stage delivered the
\* quote.
PublishPriceThrottled(st, quote) ==
    LET s0 == Emit(st, Ev("PublishPrice", "bond_algo_streaming_service", quote))
        price_stream ==
            [product |-> quote.product,
             bidOrder |-> PriceStreamOrder(quote.mid - quote.spread \div 2,
                                           StreamQuantity, StreamQuantity,
                                           "BID"),
             offerOrder |-> PriceStreamOrder(quote.mid + quote.spread \div 2,
                                             StreamQuantity, StreamQuantity,
                                             "OFFER")]
        got == {k \in DOMAIN st.trace : st.trace[k].ev = "ProvideData"}
        last == IF got = {} THEN 0
                ELSE CHOOSE k \in got : \A j \in got : j <= k
    IN  IF /\ last # 0
           /\ last < Len(st.trace)
           /\ st.trace[last + 1].ev = "GUIConnector::Publish"
        THEN Notify("bond_algo_streaming_service", price_stream, s0)
        ELSE s0

\* A PublishPrice that takes the whole spread off the mid on both sides.
PublishPriceFullSpread(st, quote) ==
    LET price_stream ==
            [product |-> quote.product,
             bidOrder |-> PriceStreamOrder(quote.mid - quote.spread,
                                           StreamQuantity, StreamQuantity,
                                           "BID"),
             offerOrder |-> PriceStreamOrder(quote.mid + quote.spread,
                                             StreamQuantity, StreamQuantity,
                                             "OFFER")]
    IN  Notify("bond_algo_streaming_service", price_stream,
               Emit(st, Ev("PublishPrice", "bond_algo_streaming_service",
                           quote)))

\* BondAlgoStreamingService::PublishPrice.  The spreads met are whole
\* multiples of 1/256, so spread / 2 is a whole number of 1/512.
PublishPrice(st, quote) ==
    LET bid_price == quote.mid - quote.spread \div 2
        ask_price == quote.mid + quote.spread \div 2
        bid_order == PriceStreamOrder(bid_price, StreamQuantity,
                                      StreamQuantity, "BID")
        ask_order == PriceStreamOrder(ask_price, StreamQuantity,
                                      StreamQuantity, "OFFER")
        price_stream == [product |-> quote.product, bidOrder |-> bid_order,
                         offerOrder |-> ask_order]
    IN  Notify("bond_algo_streaming_service", price_stream,
               Emit(st, Ev("PublishPrice", "bond_algo_streaming_service",
                           quote)))

\* StreamingService::PublishPrice: notifies the listeners of the
\* streaming service with the stream.
StreamingPublishPrice(st, stream) ==
    Notify("streaming_service", stream,
           Emit(st, Ev("PublishPrice", "streaming_service", stream)))

\* PricingService::OnMessage: notifies the listeners of the pricing
\* service with the quote.
PricingOnMessage(st, price) ==
    Notify("pricing_service", price,
           Emit(st, Ev("OnMessage", "pricing_service", price)))

---------------------------------------------------------------------------
(* The algo execution stage (services.hpp).  Order book prices are in      *)
(* 1/256 of a point.                                                       *)

\* Order of an order book level.
Order(price, quantity, side) ==
    [price |-> price, quantity |-> quantity, side |-> side]

OrderBook(product, bidStack, offerStack) ==
    [product |-> product, bidStack |-> bidStack, offerStack |-> offerStack]

\* stack[0] of a vector<Order>: the first level, or for an empty vector
\* whatever the memory holds.
Level0(st, stack) ==
    IF Len(stack) > 0 THEN stack[1]
    ELSE [price |-> st.ub.junk[0], quantity |-> st.ub.junk[1],
          side |-> "<junk>"]

\* enum PricingSide, from its integer value.
PricingSide(n) == IF n = 0 THEN "BID" ELSE "OFFER"

\* std::to_string of a non-negative int: its decimal digits.
RECURSIVE to_string(_)
to_string(n) ==
    IF n < 10 THEN <<DigitChars[n + 1]>>
    ELSE to_string(n \div 10) \o <<DigitChars[(n % 10) + 1]>>

\* static_cast<long>(quantity * hidden_ratio) with hidden_ratio 0.9: the
\* product truncated toward zero.
HiddenQuantity(quantity) ==
    IF quantity >= 0 THEN (9 * quantity) \div 10
    ELSE -((9 * (-quantity)) \div 10)

\* An AlgoExecution that takes price and quantity from the same side.
AlgoExecutionSameSide(st, data_) ==
    LET c == st.counter + 1
        side == PricingSide(c % 2)
        orderID == to_string(c)
        level == IF side = "BID" THEN Level0(st, data_.bidStack)
                 ELSE Level0(st, data_.offerStack)
    IN  [counter |-> c, market |-> "CME",
         order |-> [product |-> data_.product, side |-> side,
                    orderId |-> orderID, orderType |-> "MARKET",
                    price |-> level.price,
                    visibleQuantity |-> level.quantity,
                    hiddenQuantity |-> HiddenQuantity(level.quantity),
                    parentOrderId |-> orderID, isChildOrder |-> FALSE]]

\* An AlgoExecution that rounds the hidden quantity up.
AlgoExecutionRoundingUp(st, data_) ==
    LET c == st.counter + 1
        side == PricingSide(c % 2)
        orderID == to_string(c)
        price == IF side = "BID" THEN Level0(st, data_.bidStack).price
                 ELSE Level0(st, data_.offerStack).price
        quantity == IF side = "BID" THEN Level0(st, data_.offerStack).quantity
                    ELSE Level0(st, data_.bidStack).quantity
    IN  [counter |-> c, market |-> "CME",
         order |-> [product |-> data_.product, side |-> side,
                    orderId |-> orderID, orderType |-> "MARKET",
                    price |-> price, visibleQuantity |-> quantity,
                    hiddenQuantity |-> (9 * quantity + 9) \div 10,
                    parentOrderId |-> orderID, isChildOrder |-> FALSE]]

\* An AlgoExecution that takes the side from the instrument instead of
\* the counter.
AlgoExecutionSidePerProduct(st, data_) ==
    LET c == st.counter + 1
        side == IF data_.product = "B02y" THEN "BID" ELSE "OFFER"
        orderID == to_string(c)
        price == IF side = "BID" THEN Level0(st, data_.bidStack).price
                 ELSE Level0(st, data_.offerStack).price
        quantity == IF side = "BID" THEN Level0(st, data_.offerStack).quantity
                    ELSE Level0(st, data_.bidStack).quantity
    IN  [counter |-> c, market |-> "CME",
         order |-> [product |-> data_.product, side |-> side,
                    orderId |-> orderID, orderType |-> "MARKET",
                    price |-> price, visibleQuantity |-> quantity,
                    hiddenQuantity |-> HiddenQuantity(quantity),
                    parentOrderId |-> orderID, isChildOrder |-> FALSE]]

\* An AlgoExecution that numbers the orders per instrument: the identifier
\* is taken from the counter without advancing it for the second
\* instrument.
AlgoExecutionNotCounting(st, data_) ==
    LET c == IF data_.product = "B02y" THEN st.counter + 1 ELSE st.counter
        side == PricingSide(c % 2)
        orderID == to_string(c)
        price == IF side = "BID" THEN Level0(st, data_.bidStack).price
                 ELSE Level0(st, data_.offerStack).price
        quantity == IF side = "BID" THEN Level0(st, data_.offerStack).quantity
                    ELSE Level0(st, data_.bidStack).quantity
    IN  [counter |-> c, market |-> "CME",
         order |-> [product |-> data_.product, side |-> side,
                    orderId |-> orderID, orderType |-> "MARKET",
                    price |-> price, visibleQuantity |-> quantity,
                    hiddenQuantity |-> HiddenQuantity(quantity),
                    parentOrderId |-> orderID, isChildOrder |-> FALSE]]

\* AlgoExecution::AlgoExecution: advances the static counter, takes the
\* side from its parity, crosses at the price of that side with the
\* quantity of the other side, and builds the ExecutionOrder.  `counter`
\* is the value the static counter has after the construction.
AlgoExecution(st, data_) ==
    LET c == st.counter + 1
        side == PricingSide(c % 2)
        orderID == to_string(c)
        price == IF side = "BID" THEN Level0(st, data_.bidStack).price
                 ELSE Level0(st, data_.offerStack).price
        quantity == IF side = "BID" THEN Level0(st, data_.offerStack).quantity
                    ELSE Level0(st, data_.bidStack).quantity
    IN  [counter |-> c, market |-> "CME",
         order |-> [product |-> data_.product, side |-> side,
                    orderId |-> orderID, orderType |-> "MARKET",
                    price |-> price, visibleQuantity |-> quantity,
                    hiddenQuantity |-> HiddenQuantity(quantity),
                    parentOrderId |-> orderID, isChildOrder |-> FALSE]]

\* spread <= 1.0 / 127.0 for a spread in 1/256 of a point.
WithinTolerance(spread) == 127 * spread <= 256

\* An Execute whose tolerance is 1/63.
ExecuteWide(svc, st, data_) ==
    LET spread == Level0(st, data_.offerStack).price
                  - Level0(st, data_.bidStack).price
    IN  IF (Len(data_.bidStack) = 0 \/ Len(data_.offerStack) = 0)
           /\ st.ub.abort
        THEN Abort(st, "Execute")
        ELSE IF 63 * spread <= 256
        THEN LET algo_execution == AlgoExecution(st, data_)
                 s1 == [st EXCEPT !.counter = algo_execution.counter]
             IN  Notify(svc, algo_execution,
                        Emit(s1, Ev("AlgoExecution", svc, algo_execution)))
        ELSE st

\* An Execute that builds the execution before it looks at the spread.
ExecuteCountingAll(svc, st, data_) ==
    LET spread == Level0(st, data_.offerStack).price
                  - Level0(st, data_.bidStack).price
    IN  IF (Len(data_.bidStack) = 0 \/ Len(data_.offerStack) = 0)
           /\ st.ub.abort
        THEN Abort(st, "Execute")
        ELSE LET algo_execution == AlgoExecution(st, data_)
                 s1 == [st EXCEPT !.counter = algo_execution.counter]
             IN  IF WithinTolerance(spread)
                 THEN Notify(svc, algo_execution,
                             Emit(s1, Ev("AlgoExecution", svc,
                                         algo_execution)))
                 ELSE s1

\* BondAlgoExecutionService::Execute: reads level 0 of both stacks and,
\* when the spread is within the tolerance, builds one AlgoExecution and
\* notifies the listeners with it.
Execute(svc, st, data_) ==
    LET best_bid == Level0(st, data_.bidStack).price
        best_offer == Level0(st, data_.offerStack).price
        spread == best_offer - best_bid
    IN  IF (Len(data_.bidStack) = 0 \/ Len(data_.offerStack) = 0)
           /\ st.ub.abort
        THEN Abort(st, "Execute")
        ELSE IF WithinTolerance(spread)
        THEN LET algo_execution == AlgoExecution(st, data_)
                 s1 == [st EXCEPT !.counter = algo_execution.counter]
             IN  Notify(svc, algo_execution,
                        Emit(s1, Ev("AlgoExecution", svc, algo_execution)))
        ELSE st

---------------------------------------------------------------------------
(* The inquiry flow (connectors.hpp).                                      *)

\* The price an Inquiry is created with by the adapter: not yet set.
NoPrice == -1

\* The quantity the adapter gives every Inquiry it reads.
InquiryQuantity == 1000000

Inquiry(inquiryId, product, side, quantity, price, state) ==
    [inquiryId |-> inquiryId, product |-> product, side |-> side,
     quantity |-> quantity, price |-> price, state |-> state]

\* Inquiry::SetState.
SetState(inq, state) == [inq EXCEPT !.state = state]

\* InquiryService::OnMessage: records the inquiry as the latest one of its
\* identifier and notifies the listeners.
InquiryOnMessage(st, inq) ==
    LET s0 == Emit(st, Ev("OnMessage", "inquiry_service", inq))
        s1 == [s0 EXCEPT !.inquiries =
                  [k \in DOMAIN @ \cup {inq.inquiryId} |->
                      IF k = inq.inquiryId THEN inq ELSE @[k]]]
    IN  Notify("inquiry_service", inq, s1)

RECURSIVE Requote(_, _, _)

\* The body of the RECEIVED branch of InquiryConnector::Publish: the copy
\* q of the inquiry is set to each of `states` in turn and handed to the
\* inquiry service after each SetState.
Requote(st, q, states) ==
    IF states = << >> \/ Stopped(st) THEN st
    ELSE LET q1 == SetState(q, Head(states))
         IN  Requote(InquiryOnMessage(st, q1), q1, Tail(states))

\* A Publish that also advances a QUOTED inquiry to DONE.
InquiryConnectorPublishAdvancingQuoted(st, inq) ==
    LET s0 == Emit(st, Ev("InquiryConnector::Publish", inq.inquiryId, inq))
    IN  IF inq.state = "RECEIVED"
        THEN LET q1 == SetState(inq, "QUOTED")
                 s1 == InquiryOnMessage(s0, q1)
                 q2 == SetState(q1, "DONE")
             IN  IF Stopped(s1) THEN s1 ELSE InquiryOnMessage(s1, q2)
        ELSE IF inq.state = "QUOTED"
        THEN InquiryOnMessage(s0, SetState(inq, "DONE"))
        ELSE s0

\* InquiryConnector::Publish: a RECEIVED inquiry is copied, the copy is
\* set to QUOTED and handed to the inquiry service, then set to DONE and
\* handed to it again; nothing else of the copy is changed.  An inquiry in
\* another state is left alone.
InquiryConnectorPublish(st, inq) ==
    LET s0 == Emit(st, Ev("InquiryConnector::Publish", inq.inquiryId, inq))
    IN  IF inq.state = "RECEIVED"
        THEN Requote(s0, inq, <<"QUOTED", "DONE">>)
        ELSE s0

\* ProcessAdd of every listener: the probes only observe (and fail when
\* the event makes them), the others forward to their stage.
ProcessAdd(l, d, st) ==
    CASE l \in Probes ->
            IF l \in st.throwers THEN [st EXCEPT !.exc = l] ELSE st
      [] l = "position_listener" -> AddTrade(st, d)
      [] l = "history_position_listener" ->
            PersistData(st, "position_connector_instance", d)
      [] l = "risk_service_listener" -> AddPosition(st, d)
      [] l = "history_risk_listener" -> PersistData(st, "risk_connector", d)
      [] l = "gui_listener" -> ProvideData(st, d)
      [] l = "algo_streaming_listener" -> PublishPrice(st, d)
      [] l = "streaming_listener" -> StreamingPublishPrice(st, d)
      [] l = "hist_streaming_listener" ->
            PersistData(st, "streaming_connector", d)
      [] l = "all_inquiry_hist_listner" ->
            PersistData(st, "all_inquiries_connector", d)
      [] l = "bond_algo_execution_listener_ins" ->
            Execute("bond_algo_execution_service_ins", st, d)
      [] l = "execution_service_listener_ins" -> ExecuteOrder(st, d, "CME")
      [] l = "trade_booking_listener_ins" -> st
      [] l = "execution_hist_service_listener" ->
            PersistData(st, "execution_connector", d)

\* A remove-callback that does what the add-callback does.
ProcessRemoveForwarding(l, d, st) == ProcessAdd(l, d, st)

\* ProcessRemove of every listener class: an empty body.
ProcessRemove(l, d, st) == st

\* ProcessUpdate of every listener class: an empty body.
ProcessUpdate(l, d, st) == st

\* One round of the loop of Service::Notify, from the i-th listener on.  A
\* listener that throws ends the loop: nothing in Notify catches.
RECURSIVE NotifyFrom(_, _, _, _)
NotifyFrom(svc, d, st, i) ==
    IF Stopped(st) \/ i > Len(st.listeners[svc]) THEN st
    ELSE LET l == st.listeners[svc][i]
             s1 == ProcessAdd(l, d, Emit(st, Ev("ProcessAdd", l, d)))
             s2 == IF Stopped(s1) THEN s1 ELSE Emit(s1, Ev("return", l, d))
         IN  NotifyFrom(svc, d, s2, i + 1)

\* A Notify that walks the listeners last to first.
RECURSIVE NotifyDown(_, _, _, _)
NotifyDown(svc, d, st, i) ==
    IF Stopped(st) \/ i < 1 THEN st
    ELSE LET l == st.listeners[svc][i]
             s1 == ProcessAdd(l, d, Emit(st, Ev("ProcessAdd", l, d)))
             s2 == IF Stopped(s1) THEN s1 ELSE Emit(s1, Ev("return", l, d))
         IN  NotifyDown(svc, d, s2, i - 1)

NotifyReversed(svc, d, st) == NotifyDown(svc, d, st, Len(st.listeners[svc]))

\* A Notify that isolates errors: a failing listener is caught and the
\* remaining listeners are still invoked.
RECURSIVE NotifyCatching(_, _, _, _)
NotifyCatching(svc, d, st, i) ==
    IF st.crashed \/ i > Len(st.listeners[svc]) THEN st
    ELSE LET l == st.listeners[svc][i]
             s1 == ProcessAdd(l, d, Emit(st, Ev("ProcessAdd", l, d)))
             s2 == IF s1.crashed THEN s1
                   ELSE IF s1.exc # "none" THEN [s1 EXCEPT !.exc = "none"]
                   ELSE Emit(s1, Ev("return", l, d))
         IN  NotifyCatching(svc, d, s2, i + 1)

NotifyIsolating(svc, d, st) == NotifyCatching(svc, d, st, 1)

\* Service::Notify: for (auto ele : listeners) ele->ProcessAdd(data).
Notify(svc, d, st) == NotifyFrom(svc, d, st, 1)

---------------------------------------------------------------------------
(* The price texts of the data generator (data_generator.cpp).             *)

\* The two digits of a count of thirty-seconds.
TwoDigits(n) == IF n < 10 THEN <<"0">> \o to_string(n) ELSE to_string(n)

\* generateFractionalPrice, for the three draws it makes: the whole part,
\* two digits of thirty-seconds and '+' when hasPlus.
generateFractionalPrice(whole, frac, hasPlus) ==
    LET fracStr == TwoDigits(frac)
        price == to_string(whole) \o <<"-">> \o fracStr
    IN  IF hasPlus THEN price \o <<"+">> ELSE price

\* decimalToFractional of a positive price, in 1/256 of a point: the
\* thirty-seconds truncated, and '+' when the remainder exceeds a
\* quarter of a thirty-second.
decimalToFractional(price) ==
    LET whole == price \div 256
        frac == price % 256
        thirtySeconds == frac \div 8
        remainder == frac % 8
        hasPlus == remainder > 2
        fracStr == IF hasPlus THEN TwoDigits(thirtySeconds) \o <<"+">>
                   ELSE TwoDigits(thirtySeconds)
    IN  to_string(whole) \o <<"-">> \o fracStr

---------------------------------------------------------------------------
(* Inputs.                                                                 *)

Values == {"v1", "v2"}

\* Ticker and book texts met in trades: catalog entries and strangers.
TradeTickers == {"B02y", "B30y", "ZZZZ"}

TradeBooks == {"TRSY1", "TRSY3", "BOGUS"}

Quantities == {1, 2}

Sides == {"BUY", "SELL"}

\* Quotes; mid and spread in 1/512 of a point.
Quotes ==
    {[product |-> "B02y", mid |-> 51200, spread |-> 256],
     [product |-> "B30y", mid |-> 50944, spread |-> 16]}

TickSteps == {100, 300, 301}

\* Tickers met in the prices file: a catalog entry and a stranger.
QuoteTickers == {"B02y", "ZZZZ"}

\* Bid and ask texts of a prices line: 99-240 / 100-080 (99.75 and 100.25)
\* and, as the data generator writes them, 99-16 / 99-16+.
QuoteTexts ==
    {<< <<"9", "9", "-", "2", "4", "0">>,
        <<"1", "0", "0", "-", "0", "8", "0">> >>,
     << <<"9", "9", "-", "1", "6">>, <<"9", "9", "-", "1", "6", "+">> >>}

---------------------------------------------------------------------------
(* State after main() has built and wired the services; "svc" is a         *)
(* freshly constructed Service.                                            *)

\* The services and their wiring, the GUI service left aside.
Wired ==
    /\ listeners = DefaultWiring
    /\ name_p = NewNameP
    /\ data = << >>
    /\ now = 0
    /\ counter = 0
    /\ inquiries = << >>
    /\ trace = << >>
    /\ crashed = FALSE
    /\ result = "none"
    /\ seq = 0

\* GUIService::GUIService has run: it read the clock into
\* service_start_time and copied it to last_quote_time.
Built ==
    /\ Wired
    /\ service_start_time = now
    /\ last_quote_time = service_start_time

\* The state after construction.
Init == Built

\* What the model gives the two times of a GUIService that main() has not
\* constructed yet.
NotBuilt == -1

\* The state in which main() starts its trades flow: the GUI service is
\* constructed only when that flow has run.
InitMain ==
    /\ Wired
    /\ service_start_time = NotBuilt
    /\ last_quote_time = NotBuilt

\* main() constructs the GUIService once trades.txt has been read: the
\* constructor reads the clock into both times of the service.
GUIServiceConstruct ==
    /\ ~crashed
    /\ service_start_time = NotBuilt
    /\ LET s1 == system_clock_now(Cur(NoUB, {}))
       IN  /\ now' = s1.now
           /\ service_start_time' = s1.now
           /\ last_quote_time' = s1.now
           /\ trace' = Append(trace, Ev("call", "GUIService::GUIService",
                                        [time |-> s1.now]))
    /\ UNCHANGED <<listeners, name_p, data, counter, inquiries,
                   crashed, result, seq>>

\* The end of a top-level call: the state it leaves and what the caller got.
Commit(st, res) ==
    \E end \in {st} :
        /\ listeners' = end.listeners
        /\ name_p' = end.name_p
        /\ data' = end.data
        /\ last_quote_time' = end.last_quote_time
        /\ counter' = end.counter
        /\ inquiries' = end.inquiries
        /\ trace' = end.trace
        /\ crashed' = end.crashed
        /\ result' = res
        /\ now' = end.now
        /\ seq' = seq + 1
        /\ UNCHANGED service_start_time

Outcome(st) ==
    IF st.crashed THEN "abort"
    ELSE IF st.exc # "none" THEN "exception" ELSE "ok"

\* A call returns, or ends the process: the state it leaves, with its
\* outcome as the result.
Return(st) == \E end \in {st} : Commit(end, Outcome(end))

---------------------------------------------------------------------------
(* Top-level calls.                                                        *)

\* Service::AddListener on "svc".
AddListener ==
    /\ ~crashed
    /\ \E l \in Probes :
           /\ Len(listeners["svc"]) < MaxListeners
           /\ listeners' = [listeners EXCEPT !["svc"] = Append(@, l)]
           /\ UNCHANGED <<name_p, data, now, service_start_time,
                          last_quote_time, counter, inquiries, trace, crashed,
                          result, seq>>

\* A caller invokes Service::Notify on "svc"; `th` are the listeners that
\* fail on this event.
NotifyCall ==
    /\ ~crashed
    /\ seq < MaxInputs
    /\ \E v \in Values, th \in SUBSET Probes :
           /\ Return(
                LET s0 == Emit(Cur(NoUB, th),
                               Ev("Notify", "svc",
                                  [value |-> v, regs |-> listeners["svc"],
                                   throwers |-> th]))
                    s1 == Notify("svc", v, s0)
                    s2 == Emit(s1, Ev(IF s1.exc = "none" THEN "Notify returned"
                                      ELSE "Notify threw", "svc", s1.exc))
                IN  s2)

\* A caller invokes PositionService::AddTrade on pos_service.  The trades
\* met: any quantity and side on a book of a catalog ticker (TRSY1 and
\* TRSY3 for B02y, TRSY3 for B30y), and one trade on an unknown book and
\* one on an unknown ticker.
AddTradeCall ==
    /\ ~crashed
    /\ seq < MaxInputs
    /\ \E t \in TradeTickers, b \in TradeBooks, q \in Quantities,
          sd \in Sides :
         /\ t \notin Tickers => (b = "TRSY1" /\ q = 1 /\ sd = "BUY")
         /\ b \notin BookSet => (q = 1 /\ sd = "BUY")
         /\ t = "B30y" => b # "TRSY1"
         /\ \E ub \in UBReads(3) :
              /\ (t \in Tickers /\ b \in BookSet) => ub = NoUB
              /\ t \in Tickers => ub.junk = NoJunk
              /\ \E lags \in ClockScripts(2) :
                   /\ ub.abort => lags = NoLags(2)
                   /\ Return(
                        LET trade == [product |-> t, tradeId |-> seq + 1,
                                      book |-> b, quantity |-> q,
                                      side |-> sd]
                            s0 == Emit(CurAt(ub, {}, lags),
                                       Ev("AddTrade", "pos_service", trade))
                            s1 == AddTrade(s0, trade)
                        IN  Emit(s1, Ev("AddTrade ended", Outcome(s1),
                                        trade)))

\* A caller invokes GetData(key) on the position stage.
PositionGetDataCall ==
    /\ ~crashed
    /\ seq < MaxInputs
    /\ \E key \in TradeTickers, ub \in UBAborts :
           /\ key \in DOMAIN name_p => ub = NoUB
           /\ LET s0 == Cur(ub, {})
                  res == PositionGetData(s0, key)
                  s1 == Emit(s0, Ev("GetData", "pos_service",
                                    [key |-> key, outcome |-> res,
                                     present |-> key \in DOMAIN name_p]))
                  s2 == IF res = "abort" THEN Abort(s1, "GetData") ELSE s1
              IN  Commit(s2, res)

\* A caller invokes GetData(key) on the risk stage.
RiskGetDataCall ==
    /\ ~crashed
    /\ seq < MaxInputs
    /\ \E key \in TradeTickers, ub \in UBAborts :
           /\ key \in DOMAIN data => ub = NoUB
           /\ LET s0 == Cur(ub, {})
                  res == RiskGetData(s0, key)
                  s1 == Emit(s0, Ev("GetData", "risk_service_instance",
                                    [key |-> key, outcome |-> res,
                                     present |-> key \in DOMAIN data]))
                  s2 == IF res = "abort" THEN Abort(s1, "GetData") ELSE s1
              IN  Commit(s2, res)

\* The sectors asked for: two instruments of the catalog, and none.
Sectors ==
    {[name |-> "FrontEnd", products |-> {"B02y", "B03y"}],
     [name |-> "Empty", products |-> {}]}

\* A caller invokes GetBucketedRisk(sector) on the risk stage.
GetBucketedRiskCall ==
    /\ ~crashed
    /\ seq < MaxInputs
    /\ \E sector \in Sectors, ub \in UBAborts :
           /\ LET s0 == Cur(ub, {})
                  res == GetBucketedRisk(s0, sector)
                  s1 == Emit(s0, Ev("GetBucketedRisk", "risk_service_instance",
                                    [sector |-> sector, outcome |-> res]))
                  s2 == IF res = "abort" THEN Abort(s1, "GetBucketedRisk")
                        ELSE s1
              IN  Commit(s2, res)

\* ProductMap::GetProductMap()[ticker] as TraverseTrades uses it: the
\* catalog Bond, or for a stranger the default-constructed Bond that
\* operator[] inserts into the temporary map (no catalog ticker).
BondOf(ticker) == IF ticker \in Tickers THEN ticker ELSE ""

\* An exception that nothing catches: std::terminate ends the process.
Terminate(st, where, what) ==
    [Emit(st, Ev("abort", where, what)) EXCEPT !.crashed = TRUE]

\* One round of the loop of TradeBookingConnector::TraverseTrades: a line
\* of `n` comma separated fields is read; with fewer than six it is
\* skipped, otherwise the Trade is built and handed to the booking service.
\* `numbers` tells whether the price and quantity fields are texts of
\* numbers: std::stod and std::stol throw on a field that is not, and
\* nothing catches the exception.  The lines met carry the trades of
\* AddTradeCall.
TraverseTrades ==
    /\ ~crashed
    /\ seq < MaxInputs
    /\ \E n \in {5, 6}, numbers \in BOOLEAN, t \in TradeTickers,
          b \in TradeBooks, q \in Quantities, sd \in Sides :
         /\ (n < 6 \/ ~numbers)
            => (t = "B02y" /\ b = "TRSY1" /\ q = 1 /\ sd = "BUY")
         /\ n < 6 => numbers
         /\ t \notin Tickers => (b = "TRSY1" /\ q = 1 /\ sd = "BUY")
         /\ b \notin BookSet => (q = 1 /\ sd = "BUY")
         /\ t = "B30y" => b # "TRSY1"
         /\ \E ub \in UBReads(3) :
              /\ (n < 6 \/ ~numbers \/ (t \in Tickers /\ b \in BookSet))
                 => ub = NoUB
              /\ t \in Tickers => ub.junk = NoJunk
              /\ \E lags \in ClockScripts(2) :
                   /\ (n < 6 \/ ~numbers \/ ub.abort) => lags = NoLags(2)
                   /\ Return(
                        LET trade == [product |-> BondOf(t),
                                      tradeId |-> seq + 1, book |-> b,
                                      quantity |-> q, side |-> sd]
                            s0 == Emit(CurAt(ub, {}, lags),
                                       Ev("getline", "trade_connector",
                                          [tokens |-> n, line |-> seq + 1,
                                           ticker |-> t, book |-> b,
                                           quantity |-> q, side |-> sd,
                                           numbers |-> numbers]))
                        IN  IF n < 6 THEN s0
                            ELSE IF ~numbers
                            THEN Terminate(s0, "TraverseTrades",
                                           "std::invalid_argument")
                            ELSE TradeBookingOnMessage(s0, trade))

\* Time passes between two calls.
Tick ==
    /\ ~crashed
    /\ \E d \in TickSteps :
           /\ now + d <= MaxTime
           /\ now' = now + d
           /\ UNCHANGED <<listeners, name_p, data, service_start_time,
                          last_quote_time, counter, inquiries, trace, crashed,
                          result, seq>>

\* Time passes between two lines of the prices file: just more than the
\* window of the GUI limiter.
Pause ==
    /\ ~crashed
    /\ now + GUIThrottle + 1 <= MaxTime
    /\ now' = now + GUIThrottle + 1
    /\ UNCHANGED <<listeners, name_p, data, service_start_time,
                   last_quote_time, counter, inquiries, trace, crashed,
                   result, seq>>

\* A quote reaches GUIService::ProvideData.
ProvideDataCall ==
    /\ ~crashed
    /\ seq < MaxArrivals
    /\ \E price \in Quotes, lags \in ClockScripts(2) :
           /\ Return(
                LET s0 == CurAt(NoUB, {}, lags)
                    s1 == ProvideData(s0, price)
                IN  s1)

\* The instances of BondAlgoExecutionService.
AlgoServices == {"bond_algo_execution_service_ins", "algo_execution_service_2"}

\* 99-16 as a decimal price, in 1/256.
Bid9916 == 99 * 256 + 16 * 8

\* A one-level book from its best bid and best offer; the quantities
\* differ from side to side and from instrument to instrument.
Book1(product, bid, offer) ==
    IF product = "B02y"
    THEN OrderBook(product, <<Order(bid, 15, "BID")>>,
                   <<Order(offer, 7, "OFFER")>>)
    ELSE OrderBook(product, <<Order(bid, 1000000, "BID")>>,
                   <<Order(offer, 2000000, "OFFER")>>)

\* Best bid and best offer texts as the data generator writes them:
\* 99-16 / 99-17 and 99-16 / 99-16+.
BookTexts ==
    {<< <<"9", "9", "-", "1", "6">>, <<"9", "9", "-", "1", "7">> >>,
     << <<"9", "9", "-", "1", "6">>, <<"9", "9", "-", "1", "6", "+">> >>}

\* The order books handed to Execute: books built from decimal prices
\* (spreads of 2/256, 3/256, 1/64 and 1/32, and a crossed book), books
\* whose prices are parsed from texts, and a book with an empty stack.
\* `text` keeps the texts a book was built from.
BookInputs ==
    {[book |-> Book1("B02y", Bid9916, Bid9916 + d), text |-> << >>] :
        d \in {2, 3, 4, 8}}
    \cup {[book |-> Book1("B30y", Bid9916, Bid9916 + d), text |-> << >>] :
            d \in {2, -1}}
    \cup {[book |-> Book1("B02y", ParsePriceFormat([ub |-> NoUB], t[1]),
                          ParsePriceFormat([ub |-> NoUB], t[2])),
           text |-> t] : t \in BookTexts}
    \cup {[book |-> OrderBook("B30y",
                              <<Order(Bid9916, 1000000, "BID")>>, << >>),
           text |-> << >>]}

\* Service::AddListener on an algo execution service that has no
\* listener; the wiring is done before the first order book arrives.
AddExecutionListener ==
    /\ ~crashed
    /\ \E svc \in AlgoServices :
           /\ seq = 0
           /\ listeners[svc] = << >>
           /\ listeners' = [listeners EXCEPT ![svc] = Append(@, "L1")]
           /\ UNCHANGED <<name_p, data, now, service_start_time,
                          last_quote_time, counter, inquiries, trace, crashed,
                          result, seq>>

\* A caller invokes BondAlgoExecutionService::Execute with an order book.
ExecuteCall ==
    /\ ~crashed
    /\ seq < MaxBooks
    /\ \E svc \in AlgoServices, b \in BookInputs, ub \in UBReads(2) :
           /\ (Len(b.book.bidStack) > 0 /\ Len(b.book.offerStack) > 0)
              => ub = NoUB
           /\ Return(
                LET s0 == Emit(Cur(ub, {}),
                               Ev("call", "Execute",
                                  [svc |-> svc, book |-> b.book,
                                   text |-> b.text,
                                   counter |-> counter,
                                   regs |-> listeners[svc]]))
                    s1 == Execute(svc, s0, b.book)
                    s2 == Emit(s1, Ev("Execute ended", svc,
                                      [counter |-> s1.counter]))
                IN  s2)

\* Identifiers, tickers and states of the inquiries met.
InquiryIds == {<<"1">>, <<"2">>}

InquiryTickers == {"B02y", "ZZZZ"}

\* The values of enum InquiryState: the four that
\* AllInquiriesConnector::Publish names, and the fifth one of the enum,
\* for which it writes no name.
InquiryStates ==
    {"RECEIVED", "QUOTED", "DONE", "REJECTED", "CUSTOMER_REJECTED"}

\* The inquiries callers hand to the adapter: one without a price while
\* RECEIVED, and with a price of 100 in every later state.
CallerInquiry(id, state) ==
    Inquiry(id, "B02y", "BUY", InquiryQuantity,
            IF state = "RECEIVED" THEN NoPrice ELSE 100 * 256, state)

\* One round of the loop of InquiryConnector::Subscribe: a line of `n`
\* fields is read; with fewer than three it is skipped, otherwise a
\* RECEIVED Inquiry without a price is built and handed to the service.
InquirySubscribe ==
    /\ ~crashed
    /\ seq < MaxInquiries
    /\ \E n \in {2, 3}, id \in InquiryIds, t \in InquiryTickers, sd \in Sides :
           /\ n < 3 => (id = <<"1">> /\ t = "B02y" /\ sd = "BUY")
           /\ t \notin Tickers => sd = "BUY"
           /\ Return(
                LET inquiry == Inquiry(id, BondOf(t), sd, InquiryQuantity,
                                       NoPrice, "RECEIVED")
                    s0 == Emit(Cur(NoUB, {}),
                               Ev("getline", "inquiry_connector",
                                  [tokens |-> n, line |-> seq + 1, inqId |-> id,
                                   ticker |-> t, side |-> sd]))
                    s1 == IF n < 3 THEN s0 ELSE InquiryOnMessage(s0, inquiry)
                IN  s1)

\* A caller invokes InquiryConnector::Publish with an inquiry of
\* identifier 1 in any state.
InquiryPublishCall ==
    /\ ~crashed
    /\ seq < MaxInquiries
    /\ \E state \in InquiryStates, lags \in ClockScripts(2) :
           /\ Return(
                LET inquiry == CallerInquiry(<<"1">>, state)
                    s0 == Emit(CurAt(NoUB, {}, lags),
                               Ev("call", "InquiryConnector::Publish", inquiry))
                    s1 == InquiryConnectorPublish(s0, inquiry)
                IN  s1)

\* A caller invokes InquiryConnector::OnMessage with an inquiry in any
\* state: the adapter hands it to the inquiry service as it is.
InquiryOnMessageCall ==
    /\ ~crashed
    /\ seq < MaxInquiries
    /\ \E state \in InquiryStates :
           /\ Return(
                LET inquiry == CallerInquiry(<<"1">>, state)
                    s0 == Emit(Cur(NoUB, {}),
                               Ev("call", "InquiryConnector::OnMessage",
                                  inquiry))
                    s1 == InquiryOnMessage(s0, inquiry)
                IN  s1)

\* The quotes met so far: the lines of prices.txt read and the direct
\* calls of PublishPrice.
QuotesMet ==
    Cardinality({i \in DOMAIN trace :
                    \/ trace[i].ev = "getline"
                       /\ trace[i].who = "pricing_connector"
                    \/ trace[i].ev = "call" /\ trace[i].who = "PublishPrice"})

\* One round of the loop of PricingConnector::Subscribe: a line of `n`
\* fields is read; with fewer than three, or with a ticker outside the
\* catalog, it is skipped, otherwise bid and ask are parsed and the Price
\* (mid, spread) is handed to the pricing service.
PricingSubscribe ==
    /\ ~crashed
    /\ QuotesMet < MaxQuotes
    /\ seq < MaxFlowInputs
    /\ service_start_time # NotBuilt
    /\ \E n \in {2, 3}, t \in QuoteTickers, px \in QuoteTexts,
          lags \in ClockScripts(3) :
          /\ (n < 3 \/ t \notin Tickers)
             => (px[1][4] = "2" /\ lags = NoLags(3))
          /\ n < 3 => t = "B02y"
          /\ now - last_quote_time <= GUIThrottle => lags[2] = 0
          /\ Return(
               LET s0 == Emit(CurAt(NoUB, {}, lags),
                              Ev("getline", "pricing_connector",
                                 [tokens |-> n, line |-> seq + 1,
                                  ticker |-> t, bid |-> px[1], ask |-> px[2],
                                  time |-> now]))
                   bid == ParsePriceFormat(s0, px[1])
                   ask == ParsePriceFormat(s0, px[2])
                   price == [product |-> t, mid |-> bid + ask,
                             spread |-> 2 * (ask - bid)]
                   s1 == IF n < 3 \/ t \notin Tickers THEN s0
                         ELSE PricingOnMessage(s0, price)
               IN  s1)

\* A caller invokes BondAlgoStreamingService::PublishPrice with a quote.
PublishPriceCall ==
    /\ ~crashed
    /\ seq < MaxQuotes
    /\ \E quote \in Quotes :
           /\ Return(
                LET s0 == Emit(Cur(NoUB, {}),
                               Ev("call", "PublishPrice",
                                  [time |-> now, price |-> quote]))
                    s1 == PublishPrice(s0, quote)
                IN  s1)

\* The size of the vector of prices ParseOrderBook returns for a line.
LinePrices(splitted) ==
    IF Len(splitted) = 0 THEN 0
    ELSE IF Len(splitted) < 11 THEN Len(splitted) - 1 ELSE 10

\* A line of a catalog ticker with fewer than ten prices: the book built
\* from it reads px beyond its size.
ShortBookLine(splitted) ==
    /\ Len(splitted) > 0
    /\ splitted[1] \in Tickers
    /\ LinePrices(splitted) < 10

\* The outcomes of a line read.  For a short line: an abort, or one
\* content of the memory beyond its vector of prices, every slot read
\* there holding zero or something else whatever the other slots hold.
UBLine(splitted) ==
    IF ShortBookLine(splitted)
    THEN {UB(TRUE, NoJunk, NoBytes)}
         \cup {UB(FALSE, j, NoBytes) : j \in JunkOn(LinePrices(splitted)..9)}
    ELSE {NoUB}

\* The short lines of marketdata.txt read so far.
ShortLinesMet ==
    Cardinality({i \in DOMAIN trace :
                    /\ trace[i].ev = "getline"
                    /\ trace[i].who = "mrkt_data_connector"
                    /\ ShortBookLine(trace[i].arg.fields)})

\* px[i] of the vector of parsed prices: the price, or beyond its size
\* what the memory holds at that slot.
PxAt(st, px, i) == IF i < Len(px) THEN px[i + 1] ELSE st.ub.junk[i]

\* The fields of a line of marketdata.txt: the ticker, then the first n of
\* the ten price texts made of five (bid, ask) pairs.
BookLine(ticker, bid, ask, n) ==
    <<ticker>> \o SubSeq(<<bid, ask, bid, ask, bid, ask, bid, ask, bid, ask>>,
                         1, n)

\* The price pairs of the lines: 2/256 and 8/256 apart as the decoder
\* reads them, and a pair in the form of the generator.
LinePairs ==
    {<< <<"9", "9", "-", "1", "6", "0">>, <<"9", "9", "-", "1", "6", "2">> >>,
     << <<"9", "9", "-", "1", "6", "0">>, <<"9", "9", "-", "1", "7", "0">> >>,
     << <<"9", "9", "-", "1", "6">>, <<"9", "9", "-", "1", "6", "+">> >>}

\* The lines of marketdata.txt met: full lines of two instruments, a full
\* line of a stranger, lines of two prices, a line of no price, and the
\* empty line.
BookLines ==
    {BookLine(t, p[1], p[2], 10) : t \in {"B02y", "B30y"}, p \in LinePairs}
    \cup {BookLine("ZZZZ", <<"9", "9", "-", "1", "6", "0">>,
                   <<"9", "9", "-", "1", "6", "2">>, 10)}
    \cup {BookLine("B02y", p[1], p[2], n) :
            p \in {q \in LinePairs : q[2][6] # "+"}, n \in {0, 2}}
    \cup {<< >>}

\* One round of the loop of MrktDataConnector::Subscribe: a line is
\* parsed, dropped when its ticker is not of the catalog, and otherwise a
\* book of five levels is built from px[0..9], whatever the size of px,
\* and handed to the market data service.
MrktDataSubscribe ==
    /\ ~crashed
    /\ seq < MaxLines
    /\ \E splitted \in BookLines :
           /\ ShortBookLine(splitted) => ShortLinesMet < MaxShortLines
           /\ \E ub \in UBLine(splitted) :
              Return(
              LET s0 == Emit(Cur(ub, {}),
                             Ev("getline", "mrkt_data_connector",
                                [tokens |-> Len(splitted), line |-> seq + 1,
                                 fields |-> splitted, counter |-> counter]))
                  parsed == ParseOrderBook(s0, splitted)
                  ticker == parsed.ticker
                  px == parsed.px
                  bidStack == [i \in 1..5 |->
                                  Order(PxAt(s0, px, 2 * (i - 1)),
                                        1000000 * i, "BID")]
                  askStack == [i \in 1..5 |->
                                  Order(PxAt(s0, px, 2 * (i - 1) + 1),
                                        1000000 * i, "OFFER")]
                  obook == OrderBook(ticker, bidStack, askStack)
                  s1 == IF ticker \notin Tickers THEN s0
                        ELSE IF Len(px) < 10 /\ ub.abort
                        THEN Abort(s0, "MrktDataConnector::Subscribe")
                        ELSE ProcessOrderBook(s0, obook)
              IN  s1)

\* The ExecutionOrders handed to the execution service.
OrderInputs ==
    {AlgoExecution([counter |-> c, ub |-> NoUB],
                   Book1(t, Bid9916, Bid9916 + 2)).order :
        c \in {0, 1}, t \in {"B02y", "B30y"}}

\* An ExecutionOrder arrives at the add-callback of
\* execution_service_listener_ins, the listener main() builds for the
\* execution service and registers with no service.
ExecutionOrderCall ==
    /\ ~crashed
    /\ seq < MaxLines
    /\ \E order \in OrderInputs :
           /\ Return(
                LET s0 == Emit(Cur(NoUB, {}),
                               Ev("call",
                                  "ExecutionServiceListener::ProcessAdd",
                                  order))
                IN  ProcessAdd("execution_service_listener_ins", order,
                               s0))

\* The listeners main() builds, by the type of the values they take.
TradeListeners == {"position_listener"}
PositionListeners == {"history_position_listener", "risk_service_listener"}
PriceListeners == {"gui_listener", "algo_streaming_listener"}
StreamListeners == {"streaming_listener", "hist_streaming_listener"}
OrderListeners == {"execution_service_listener_ins",
                   "trade_booking_listener_ins",
                   "execution_hist_service_listener"}
AllListeners ==
    TradeListeners \cup PositionListeners \cup {"history_risk_listener"}
    \cup PriceListeners \cup StreamListeners
    \cup {"bond_algo_execution_listener_ins"} \cup OrderListeners
    \cup {"all_inquiry_hist_listner"}

\* Values handed to the remove- and update-callbacks of a listener.
CallbackData(l) ==
    CASE l \in TradeListeners ->
            {[product |-> "B02y", tradeId |-> 1, book |-> b,
              quantity |-> 1, side |-> "SELL"] : b \in {"TRSY1", "TRSY2"}}
      [] l \in PositionListeners -> {[valid |-> TRUE, key |-> "B02y"]}
      [] l = "history_risk_listener" ->
            {[product |-> "B02y", pv01 |-> PV01Hundredths, quantity |-> 1]}
      [] l \in PriceListeners -> Quotes
      [] l \in StreamListeners ->
            {[product |-> "B02y",
              bidOrder |-> PriceStreamOrder(51072, StreamQuantity,
                                            StreamQuantity, "BID"),
              offerOrder |-> PriceStreamOrder(51328, StreamQuantity,
                                              StreamQuantity, "OFFER")]}
      [] l = "bond_algo_execution_listener_ins" ->
            {Book1("B02y", Bid9916, Bid9916 + 2)}
      [] l \in OrderListeners -> OrderInputs
      [] l = "all_inquiry_hist_listner" ->
            {Inquiry(<<"1">>, "B02y", "BUY", InquiryQuantity, NoPrice,
                     "RECEIVED")}

\* A caller invokes the remove-callback of a listener.
ProcessRemoveCall ==
    /\ ~crashed
    /\ seq < MaxInputs
    /\ \E l \in AllListeners :
           \E d \in CallbackData(l) :
               /\ Return(
                    LET s0 == Emit(Cur(NoUB, {}),
                                   Ev("call", "ProcessRemove",
                                      [listener |-> l, data |-> d]))
                        s1 == ProcessRemove(l, d, s0)
                    IN  s1)

\* A caller invokes the update-callback of a listener.
ProcessUpdateCall ==
    /\ ~crashed
    /\ seq < MaxInputs
    /\ \E l \in AllListeners :
           \E d \in CallbackData(l) :
               /\ Return(
                    LET s0 == Emit(Cur(NoUB, {}),
                                   Ev("call", "ProcessUpdate",
                                      [listener |-> l, data |-> d]))
                        s1 == ProcessUpdate(l, d, s0)
                    IN  s1)

\* The trades handed straight to the booking service.
FlowTrades ==
    {[product |-> "B02y", tradeId |-> 1, book |-> "TRSY1", quantity |-> 1,
      side |-> "BUY"],
     [product |-> "B30y", tradeId |-> 2, book |-> "TRSY3", quantity |-> 2,
      side |-> "SELL"]}

\* A caller invokes TradeBookingService::OnMessage with a trade, as the
\* booking connector does for a line of trades.txt.  main() reads that
\* file before it constructs the GUI service.
BookTradeCall ==
    /\ ~crashed
    /\ seq < MaxFlowTrades
    /\ \E trade \in FlowTrades, lags \in ClockScripts(2) :
           /\ service_start_time = NotBuilt
           /\ Return(
                LET s0 == Emit(CurAt(NoUB, {}, lags),
                               Ev("call", "TradeBookingService::OnMessage",
                                  trade))
                    s1 == TradeBookingOnMessage(s0, trade)
                IN  s1)

\* The decimals of the codec: the multiples of 1/64 whose whole part is 99
\* or 100, in 1/256 of a point.
CodecDecimals == {4 * m : m \in (99 * 64)..(101 * 64 - 1)}

\* The texts "<whole>-<frac>[+]" of the generator.
CanonicalTexts ==
    {generateFractionalPrice(w, f, p) :
        w \in {99, 100}, f \in 0..31, p \in BOOLEAN}

\* Texts outside the generator's form: missing fraction digits, a char
\* that is no digit, whole parts other than 99 and 100, the empty text.
MalformedTexts ==
    {<<"9", "9", "-", "1">>, <<"9", "9", "-">>, <<"1", "0", "0", "-", "0">>,
     <<"9", "9", "-", "x", "6">>, <<"9", "8", "-", "1", "6">>,
     <<"1", "0", "1", "-", "1", "6">>, << >>}

\* The texts handed to the parser: those that make it read MaxJunkChars
\* chars at most beyond the terminator.
ParseTexts ==
    {text \in CanonicalTexts \cup MalformedTexts :
        Cardinality(BeyondEnd(text)) <= MaxJunkChars}

\* A caller invokes FormatParser::ParsePriceFormat on a text.  A text too
\* short for the three chars read makes the read run past the buffer.
ParsePriceCall ==
    /\ ~crashed
    /\ seq < MaxCodecCalls
    /\ \E text \in ParseTexts :
         \E abort \in BOOLEAN, v \in [BeyondEnd(text) -> JunkBytes] :
           /\ abort => (ReadsPastEnd(text) /\ \A i \in DOMAIN v : v[i] = 0)
           /\ Return(
                LET s0 == Cur(IF abort THEN UB(TRUE, NoJunk, NoBytes)
                              ELSE UBParse(text, v), {})
                    aborts == abort
                    s1 == Emit(s0, Ev("ParsePriceFormat", text,
                                      IF aborts THEN [outcome |-> "abort"]
                                      ELSE [outcome |-> "decimal",
                                            value |-> ParsePriceFormat(s0,
                                                                       text)]))
                    s2 == IF aborts THEN Abort(s1, "ParsePriceFormat") ELSE s1
                IN  s2)

\* A price is written by decimalToFractional and the text is read back by
\* ParsePriceFormat, as the generated prices.txt is by the pricing
\* connector.
RoundTripCall ==
    /\ ~crashed
    /\ seq < MaxCodecCalls
    /\ \E x \in CodecDecimals :
           /\ Return(
                LET s0 == Cur(NoUB, {})
                    text == decimalToFractional(x)
                    s1 == Emit(s0, Ev("round trip", text,
                                      [price |-> x,
                                       decoded |-> ParsePriceFormat(s0, text)]))
                IN  s1)

---------------------------------------------------------------------------
(* Specifications.                                                         *)

\* A Service with probe listeners.
NextNotify == AddListener \/ NotifyCall

SpecNotify == Init /\ [][NextNotify]_vars

\* Direct calls on the position and risk stages, wired as main() wires them.
NextPosition == AddTradeCall \/ PositionGetDataCall \/ RiskGetDataCall

SpecPosition == Init /\ [][NextPosition]_vars

\* Direct calls on the risk stage behind the position stage.
NextRisk == AddTradeCall \/ RiskGetDataCall \/ GetBucketedRiskCall

SpecRisk == Init /\ [][NextRisk]_vars

\* The trades flow: trades.txt read by the booking connector.
NextTrades == TraverseTrades

SpecTrades == Init /\ [][NextTrades]_vars

\* The trades flow and then the prices flow, in the order main() runs
\* them, under a clock: the GUI service is built between the two.
NextFlows ==
    Pause \/ BookTradeCall \/ GUIServiceConstruct \/ PricingSubscribe

SpecFlows == InitMain /\ [][NextFlows]_vars

\* The GUI rate limiter under a clock.
NextGUI == Tick \/ ProvideDataCall

SpecGUI == Init /\ [][NextGUI]_vars

\* The prices flow: prices.txt read by the pricing connector under a
\* clock, and direct calls of the streaming stage.
NextPrices == Pause \/ PricingSubscribe \/ PublishPriceCall

SpecPrices == Init /\ [][NextPrices]_vars

\* Direct calls of the algo execution stage.
NextExecution == AddExecutionListener \/ ExecuteCall

SpecExecution == Init /\ [][NextExecution]_vars

\* The inquiry flow: inquiries.txt read by the inquiry connector, and
\* direct calls of the adapter's Publish.
NextInquiry ==
    InquirySubscribe \/ InquiryPublishCall \/ InquiryOnMessageCall

SpecInquiry == Init /\ [][NextInquiry]_vars

\* The remove- and update-callbacks of the listeners, next to a stage
\* that notifies.
NextCallbacks == PublishPriceCall \/ ProcessRemoveCall \/ ProcessUpdateCall

SpecCallbacks == Init /\ [][NextCallbacks]_vars

\* The market data flow: marketdata.txt read by the market data
\* connector, and orders handed to the execution service.
NextMarketData == MrktDataSubscribe \/ ExecutionOrderCall

SpecMarketData == Init /\ [][NextMarketData]_vars

\* The price codec: texts decoded, and decimals encoded then decoded.
NextCodec == ParsePriceCall \/ RoundTripCall

SpecCodec == Init /\ [][NextCodec]_vars

---------------------------------------------------------------------------
(* Reading the trace.                                                      *)

\* The first index after i whose event is one of `evs`, or Len(trace) + 1.
NextIdx(i, evs) ==
    IF \E j \in (i + 1)..Len(trace) : trace[j].ev \in evs
    THEN CHOOSE j \in (i + 1)..Len(trace) :
            /\ trace[j].ev \in evs
            /\ \A k \in (i + 1)..(j - 1) : trace[k].ev \notin evs
    ELSE Len(trace) + 1

\* The calls of a Notify over `regs` in which every listener returns: each
\* registration entered and left in turn.
ExpectedCalls(regs, v) ==
    [k \in 1..(2 * Len(regs)) |->
        IF k % 2 = 1 THEN Ev("ProcessAdd", regs[(k + 1) \div 2], v)
        ELSE Ev("return", regs[k \div 2], v)]

NotifyEnds == {"Notify returned", "Notify threw"}

\* The position of the first registration that fails, or 0.
FirstFailing(regs, th) ==
    IF \E k \in 1..Len(regs) : regs[k] \in th
    THEN CHOOSE k \in 1..Len(regs) :
            /\ regs[k] \in th
            /\ \A m \in 1..(k - 1) : regs[m] \notin th
    ELSE 0

---------------------------------------------------------------------------
(* Claims.                                                                 *)

\* C1: a Notify(value) on a Service whose listeners all return invokes
\* ProcessAdd once per registration (a listener registered k times is
\* invoked k times), in registration order, and each call has returned
\* before the next listener is invoked.
C1_NotifyInRegistrationOrder ==
    \A i \in DOMAIN trace :
        (trace[i].ev = "Notify"
         /\ FirstFailing(trace[i].arg.regs, trace[i].arg.throwers) = 0)
        => LET j == NextIdx(i, NotifyEnds)
           IN  /\ j <= Len(trace)
               /\ trace[j].ev = "Notify returned"
               /\ SubSeq(trace, i + 1, j - 1)
                    = ExpectedCalls(trace[i].arg.regs, trace[i].arg.value)

\* A Notify has returned on three registrations, one listener twice.
C1_Witness ==
    \E i \in DOMAIN trace :
        /\ trace[i].ev = "Notify"
        /\ Len(trace[i].arg.regs) = 3
        /\ trace[i].arg.regs[1] = trace[i].arg.regs[3]
        /\ trace[i].arg.regs[1] # trace[i].arg.regs[2]
        /\ NextIdx(i, NotifyEnds) = i + 7
        /\ trace[i + 7].ev = "Notify returned"


\* C8: when the j-th registered listener fails during Notify, the failure
\* reaches the caller of Notify, the listeners registered before j have
\* been invoked (and have returned), and no listener registered after j is
\* invoked for that event.
C8_FailureAbortsTheChain ==
    \A i \in DOMAIN trace :
        (trace[i].ev = "Notify"
         /\ FirstFailing(trace[i].arg.regs, trace[i].arg.throwers) # 0)
        => LET regs == trace[i].arg.regs
               f == FirstFailing(regs, trace[i].arg.throwers)
               j == NextIdx(i, NotifyEnds)
           IN  /\ j <= Len(trace)
               /\ trace[j] = Ev("Notify threw", "svc", regs[f])
               /\ SubSeq(trace, i + 1, j - 1)
                    = ExpectedCalls(SubSeq(regs, 1, f - 1), trace[i].arg.value)
                        \o <<Ev("ProcessAdd", regs[f], trace[i].arg.value)>>

\* The second of three registered listeners has failed.
C8_Witness ==
    \E i \in DOMAIN trace :
        /\ trace[i].ev = "Notify"
        /\ Len(trace[i].arg.regs) = 3
        /\ FirstFailing(trace[i].arg.regs, trace[i].arg.throwers) = 2
        /\ NextIdx(i, NotifyEnds) = i + 4
        /\ trace[i + 4].ev = "Notify threw"
        /\ result = "exception"

\* The signed quantity of the AddTrade calls made so far (the first n
\* events) for instrument X on one of its books: + for BUY, - for SELL.
RECURSIVE SignedSum(_)
SignedSum(calls) ==
    IF calls = {} THEN 0
    ELSE LET n == CHOOSE k \in calls : TRUE
         IN  SignedSum(calls \ {n})
             + (IF trace[n].arg.side = "BUY" THEN trace[n].arg.quantity
                ELSE 0 - trace[n].arg.quantity)

NetUpTo(X, n) ==
    SignedSum({k \in 1..n : /\ trace[k].ev = "AddTrade"
                            /\ trace[k].arg.product = X
                            /\ trace[k].arg.book \in BookSet})

\* C2: for every instrument of the catalog, after any sequence of AddTrade
\* calls, GetAggregatePosition of its Position is the sum of the
\* quantities of its BUY trades minus that of its SELL trades, over the
\* trades applied to one of its books (zero when none was applied).
C2_AggregateIsSignedSum ==
    \A X \in Tickers :
        GetAggregatePosition([ub |-> NoUB], name_p[X])
            = NetUpTo(X, Len(trace))

\* An instrument bought on one book and sold more on another.
C2_Witness ==
    \E X \in Tickers :
        /\ NetUpTo(X, Len(trace)) < 0
        /\ \E i, j \in DOMAIN trace :
              /\ trace[i].ev = "UpdatePosition" /\ trace[i].who = X
              /\ trace[j].ev = "UpdatePosition" /\ trace[j].who = X
              /\ trace[i].arg.side = "BUY" /\ trace[j].arg.side = "SELL"
              /\ trace[i].arg.book # trace[j].arg.book

\* C3: in every reachable state of the position stage, also after trades
\* naming a book outside the three, the book keys of every Position are
\* exactly TRSY1, TRSY2 and TRSY3.
C3_BookKeysFixed ==
    /\ DOMAIN name_p = Tickers
    /\ \A X \in DOMAIN name_p :
          DOMAIN name_p[X].positions = {"TRSY1", "TRSY2", "TRSY3"}

\* A trade naming a stranger book went through, and a later trade was
\* applied.
C3_Witness ==
    \E i, j \in DOMAIN trace :
        /\ i < j
        /\ trace[i].ev = "stray write"
        /\ trace[j].ev = "UpdatePosition"

\* The events the step has added to the trace.
NewEvents == (Len(trace) + 1)..Len(trace')

\* C4: an AddTrade naming a book outside the three is logged and dropped:
\* no quantity of any Position changes and the stage goes on working.
C4_UnknownBookLoggedAndDropped ==
    [][\A k \in NewEvents :
          (/\ trace'[k].ev = "AddTrade"
           /\ trace'[k].arg.product \in Tickers
           /\ trace'[k].arg.book \notin BookSet)
          => /\ \E m \in NewEvents : trace'[m].ev = "cout"
             /\ name_p' = name_p
             /\ ~crashed'
             /\ result' = "ok"]_vars

\* C5: an AddTrade naming an instrument outside the catalog ends in an
\* UnknownInstrument failure: no Position is changed or created and no
\* listener of the position stage is notified.
C5_UnknownInstrumentFails ==
    [][\A k \in NewEvents :
          (trace'[k].ev = "AddTrade" /\ trace'[k].arg.product \notin Tickers)
          => /\ result' = "UnknownInstrument"
             /\ name_p' = name_p
             /\ \A m \in NewEvents : trace'[m].ev # "ProcessAdd"]_vars

\* C6: GetData with a key that has no entry, on the position stage and on
\* the risk stage, yields a NotFound error and creates no entry.
C6_GetDataAbsentKeyNotFound ==
    [][\A k \in NewEvents :
          (trace'[k].ev = "GetData" /\ ~trace'[k].arg.present)
          => /\ result' = "NotFound"
             /\ DOMAIN name_p' = DOMAIN name_p
             /\ DOMAIN data' = DOMAIN data]_vars


\* The calls and effects of one trade going through the default wiring,
\* as (event, owner) pairs, in the order the code makes them.
CascadeShape(ticker) ==
    << <<"OnMessage", "trade_booking_service">>,
       <<"ProcessAdd", "position_listener">>,
       <<"UpdatePosition", ticker>>,
       <<"ProcessAdd", "history_position_listener">>,
       <<"PositionConnector::Publish", ticker>>,
       <<"return", "history_position_listener">>,
       <<"ProcessAdd", "risk_service_listener">>,
       <<"AddPosition", ticker>>,
       <<"ProcessAdd", "history_risk_listener">>,
       <<"RiskConnector::Publish", ticker>>,
       <<"return", "history_risk_listener">>,
       <<"return", "risk_service_listener">>,
       <<"return", "position_listener">> >>

Shape(events) == [k \in 1..Len(events) |-> <<events[k].ev, events[k].who>>]

\* What the trace holds between the reading of the line at i and the
\* reading of the next line.
LineSegment(i) == SubSeq(trace, i + 1, NextIdx(i, {"getline"}) - 1)

\* The line at i is a complete trade on a catalog instrument and book.
GoodLine(i) ==
    /\ trace[i].ev = "getline"
    /\ trace[i].arg.tokens = 6
    /\ trace[i].arg.numbers
    /\ trace[i].arg.ticker \in Tickers
    /\ trace[i].arg.book \in BookSet

\* C7: through the default trade wiring, everything the i-th input trade
\* triggers (position update, position record, risk computation, risk
\* record) happens, in that order, after the i-th line is read and before
\* the next line is read: the cascades of two trades never interleave.
C7_CascadesDoNotInterleave ==
    \A i \in DOMAIN trace :
        trace[i].ev = "getline"
        => LET a == trace[i].arg
               seg == LineSegment(i)
           IN  /\ a.tokens < 6 => seg = << >>
               /\ \A k \in DOMAIN seg :
                     seg[k].ev = "OnMessage" => seg[k].arg.tradeId = a.line
               /\ GoodLine(i)
                  => /\ Shape(seg) = CascadeShape(a.ticker)
                     /\ seg[1].arg.tradeId = a.line
                     /\ seg[3].arg = [book |-> a.book, side |-> a.side,
                                      quantity |-> a.quantity]
                     /\ seg[10].arg.totalRisk
                          = PV01Hundredths * seg[5].arg.aggPos

\* Two complete trades on one instrument have gone through.
C7_Witness ==
    \E i, j \in DOMAIN trace :
        /\ i < j
        /\ GoodLine(i) /\ GoodLine(j)
        /\ trace[i].arg.ticker = trace[j].arg.ticker
        /\ Len(LineSegment(j)) = 13

\* ProvideData was entered at i; its quote went to the sink.
Arrival(i) == trace[i].ev = "ProvideData"

Delivery(i) == trace[i].ev = "GUIConnector::Publish"

Delivered(i) == i < Len(trace) /\ Delivery(i + 1)

\* The index of the last delivery before i, or 0.
LastDelivery(i) ==
    IF \E k \in 1..(i - 1) : Delivery(k)
    THEN CHOOSE k \in 1..(i - 1) :
            Delivery(k) /\ \A m \in (k + 1)..(i - 1) : ~Delivery(m)
    ELSE 0

\* The time at which the quote of the last delivery before i was received
\* by ProvideData (the record of the delivery follows its receipt).
ReceiptOfLastDelivered(i) == trace[LastDelivery(i) - 1].arg.time

\* C9: once a quote has been delivered, ProvideData delivers a quote if
\* and only if more than 300 ms have passed since the last delivery (a
\* quote exactly 300 ms after it is dropped); so two consecutive
\* deliveries are more than 300 ms apart.  The time of a delivery is the
\* time at which ProvideData received the delivered quote, which is the
\* time the limiter keeps.
C9_DeliveryOnlyAfterThrottle ==
    /\ \A i \in DOMAIN trace :
          (Arrival(i) /\ LastDelivery(i) # 0)
          => (Delivered(i)
              <=> trace[i].arg.time - ReceiptOfLastDelivered(i) > 300)
    /\ \A i \in DOMAIN trace :
          (Delivery(i) /\ LastDelivery(i) # 0)
          => trace[i - 1].arg.time - ReceiptOfLastDelivered(i) > 300

\* A quote was dropped exactly 300 ms after the last delivered quote was
\* received, and a later quote, 400 ms after it, was delivered.
C9_Witness ==
    \E i, j \in DOMAIN trace :
        /\ i < j
        /\ Arrival(i) /\ Arrival(j)
        /\ LastDelivery(i) # 0
        /\ LastDelivery(j) = LastDelivery(i)
        /\ trace[i].arg.time - ReceiptOfLastDelivered(i) = 300
        /\ ~Delivered(i)
        /\ trace[j].arg.time - ReceiptOfLastDelivered(j) = 400
        /\ Delivered(j)

\* The indices of the first and the second quote received.
FirstArrival == NextIdx(0, {"ProvideData"})

SecondArrival == NextIdx(FirstArrival, {"ProvideData"})

\* C10: of the first two quotes a GUIService receives, when they are
\* 100 ms apart only the first is forwarded, and when they are 400 ms
\* apart both are, whatever the time between construction and the first.
C10_FirstQuoteForwarded ==
    SecondArrival <= Len(trace)
    => LET gap == trace[SecondArrival].arg.time - trace[FirstArrival].arg.time
       IN  /\ gap = 100
              => Delivered(FirstArrival) /\ ~Delivered(SecondArrival)
           /\ gap = 400
              => Delivered(FirstArrival) /\ Delivered(SecondArrival)


\* The events that open the handling of one input: a line read by a
\* connector, or a direct call.
InputEvents == {"getline", "call"}

\* What the trace holds between the input opened at i and the next input.
InputSegment(i) == SubSeq(trace, i + 1, NextIdx(i, InputEvents) - 1)

\* The indices of `events` holding an event `ev` of `who`.
Where(events, ev, who) ==
    {k \in DOMAIN events : events[k].ev = ev /\ events[k].who = who}

\* The line at i is a prices line that becomes a quote.
QuoteLine(i) ==
    /\ trace[i].ev = "getline"
    /\ trace[i].who = "pricing_connector"
    /\ trace[i].arg.tokens >= 3
    /\ trace[i].arg.ticker \in Tickers

\* C11: BondAlgoStreamingService::PublishPrice notifies its listeners with
\* exactly one PriceStream for every quote it receives; in the prices flow
\* every quote reaches PublishPrice once, whether the GUI rate limiter
\* delivered that quote or dropped it.
C11_StreamForEveryQuote ==
    \A i \in DOMAIN trace :
        /\ (trace[i].ev = "PublishPrice"
            /\ trace[i].who = "bond_algo_streaming_service")
           => /\ i < Len(trace)
              /\ trace[i + 1].ev = "ProcessAdd"
              /\ trace[i + 1].who = "streaming_listener"
              /\ trace[i + 1].arg.product = trace[i].arg.product
        /\ (trace[i].ev \in InputEvents /\ trace[i].who # "pricing_connector")
           => LET seg == InputSegment(i)
              IN  /\ Cardinality(Where(seg, "PublishPrice",
                                       "bond_algo_streaming_service")) = 1
                  /\ Cardinality(Where(seg, "ProcessAdd",
                                       "streaming_listener")) = 1
        /\ trace[i].ev = "getline"
           => LET seg == InputSegment(i)
                  n == IF QuoteLine(i) THEN 1 ELSE 0
              IN  /\ Cardinality(Where(seg, "PublishPrice",
                                       "bond_algo_streaming_service")) = n
                  /\ Cardinality(Where(seg, "ProcessAdd",
                                       "streaming_listener")) = n
                  /\ Cardinality(Where(seg, "StreamingConnector::Publish",
                                       trace[i].arg.ticker)) = n

\* One quote of the prices flow was dropped by the GUI limiter and a later
\* one delivered; both were streamed.
C11_Witness ==
    \E i, j \in DOMAIN trace :
        /\ i < j
        /\ QuoteLine(i) /\ QuoteLine(j)
        /\ Where(InputSegment(i), "GUIConnector::Publish", "B02y") = {}
        /\ Where(InputSegment(j), "GUIConnector::Publish", "B02y") # {}
        /\ Where(InputSegment(i), "ProcessAdd", "streaming_listener") # {}
        /\ Where(InputSegment(j), "ProcessAdd", "streaming_listener") # {}

\* C12: the PriceStream PublishPrice builds for Quote(mid, spread) has a
\* BID leg priced mid - spread/2 and an OFFER leg priced mid + spread/2
\* (99.75 and 100.25 for Quote(100, 0.5)), carries the quote's instrument,
\* and both legs carry visible 1,000,000 and hidden 1,000,000.
C12_QuoteSymmetry ==
    \A i \in DOMAIN trace :
        (trace[i].ev = "ProcessAdd" /\ trace[i].who = "streaming_listener")
        => /\ i > 1
           /\ trace[i - 1].ev = "PublishPrice"
           /\ trace[i - 1].who = "bond_algo_streaming_service"
           /\ LET quote == trace[i - 1].arg
                  stream == trace[i].arg
              IN  /\ stream.product = quote.product
                  /\ stream.bidOrder.side = "BID"
                  /\ stream.offerOrder.side = "OFFER"
                  /\ 2 * stream.bidOrder.price = 2 * quote.mid - quote.spread
                  /\ 2 * stream.offerOrder.price = 2 * quote.mid + quote.spread
                  /\ (quote.mid = 100 * 512 /\ quote.spread = 256)
                     => /\ 4 * stream.bidOrder.price = 399 * 512
                        /\ 4 * stream.offerOrder.price = 401 * 512
                  /\ stream.bidOrder.visible = 1000000
                  /\ stream.bidOrder.hidden = 1000000
                  /\ stream.offerOrder.visible = 1000000
                  /\ stream.offerOrder.hidden = 1000000

\* Quote(100, 0.5) has been streamed.
C12_Witness ==
    \E i \in DOMAIN trace :
        /\ trace[i].ev = "ProcessAdd"
        /\ trace[i].who = "streaming_listener"
        /\ i > 1
        /\ trace[i - 1].ev = "PublishPrice"
        /\ trace[i - 1].arg.mid = 100 * 512
        /\ trace[i - 1].arg.spread = 256
        /\ trace[i].arg.bidOrder.price = 51072


\* Execute was called at i.
ExecuteCallAt(i) == trace[i].ev = "call" /\ trace[i].who = "Execute"

\* Both stacks of the book have a level 0.
FullBook(book) == Len(book.bidStack) > 0 /\ Len(book.offerStack) > 0

\* The indices of the executions generated so far, by any service.
Generated == {k \in DOMAIN trace : trace[k].ev = "AlgoExecution"}

\* The indices of `events` where a listener is handed an event.
Notified(events) == {k \in DOMAIN events : events[k].ev = "ProcessAdd"}

\* C13: Execute(orderBook) generates exactly one execution and notifies
\* every listener with it when bestOffer(level 0) - bestBid(level 0) is at
\* most 1/127, and otherwise notifies no listener and leaves the execution
\* counter unchanged.
C13_ExecuteOnlyWithinTolerance ==
    \A i \in DOMAIN trace :
        (ExecuteCallAt(i) /\ FullBook(trace[i].arg.book))
        => LET a == trace[i].arg
               seg == InputSegment(i)
               spread == a.book.offerStack[1].price - a.book.bidStack[1].price
               made == Where(seg, "AlgoExecution", a.svc)
           IN  /\ seg # << >>
               /\ seg[Len(seg)].ev = "Execute ended"
               /\ IF 127 * spread <= 256
                  THEN /\ Cardinality(made) = 1
                       /\ Cardinality(Notified(seg)) = Len(a.regs)
                       /\ \A k \in Notified(seg) :
                             \A m \in made : seg[k].arg = seg[m].arg
                       /\ seg[Len(seg)].arg.counter = a.counter + 1
                  ELSE /\ made = {}
                       /\ Notified(seg) = {}
                       /\ seg[Len(seg)].arg.counter = a.counter

\* A book with spread 2/256 was executed and notified to a listener, and
\* a book with spread 3/256 was evaluated.
C13_Witness ==
    \E i, j \in DOMAIN trace :
        /\ ExecuteCallAt(i) /\ ExecuteCallAt(j)
        /\ FullBook(trace[i].arg.book) /\ FullBook(trace[j].arg.book)
        /\ trace[i].arg.book.offerStack[1].price
             - trace[i].arg.book.bidStack[1].price = 2
        /\ Notified(InputSegment(i)) # {}
        /\ trace[j].arg.book.offerStack[1].price
             - trace[j].arg.book.bidStack[1].price = 3
        /\ Len(InputSegment(j)) = 1

\* The book of the call at i has best bid 99-16 and the best offer that
\* is `d`/256 above it, or was built from the texts `texts`.
BookIs(i, d, texts) ==
    /\ ExecuteCallAt(i)
    /\ \/ /\ trace[i].arg.text = << >>
          /\ trace[i].arg.book.product = "B02y"
          /\ trace[i].arg.book.bidStack[1].price = Bid9916
          /\ trace[i].arg.book.offerStack[1].price = Bid9916 + d
       \/ trace[i].arg.text = texts

Text9916 == <<"9", "9", "-", "1", "6">>

Text9917 == <<"9", "9", "-", "1", "7">>

Text9916Plus == <<"9", "9", "-", "1", "6", "+">>

ExecutionsOf(i) == Where(InputSegment(i), "AlgoExecution", trace[i].arg.svc)

\* C14, as stated: an OrderBook with best bid 99-16 and best offer 99-17
\* produces no execution, and an OrderBook with best bid 99-16 and best
\* offer 99-16+ (spread 1/64) produces exactly one ExecutionOrder.
C14_AsStated ==
    \A i \in DOMAIN trace :
        /\ BookIs(i, 8, <<Text9916, Text9917>>) => ExecutionsOf(i) = {}
        /\ BookIs(i, 4, <<Text9916, Text9916Plus>>)
           => Cardinality(ExecutionsOf(i)) = 1

\* C14, amended: an OrderBook with best bid 99-16 and best offer 99-17
\* produces no execution, and an OrderBook with best bid 99-16 and best
\* offer 99-16+ (spread 1/64, above the tolerance of 1/127) produces no
\* execution either.
C14_NoExecutionAtOneSixtyFourth ==
    \A i \in DOMAIN trace :
        /\ BookIs(i, 8, <<Text9916, Text9917>>)
           => /\ ExecutionsOf(i) = {}
              /\ Notified(InputSegment(i)) = {}
        /\ BookIs(i, 4, <<Text9916, Text9916Plus>>)
           => /\ ExecutionsOf(i) = {}
              /\ Notified(InputSegment(i)) = {}

\* Both books were evaluated, the second one by a service with a listener,
\* built from prices and built from texts.
C14_Witness ==
    \E i, j, k \in DOMAIN trace :
        /\ BookIs(i, 8, <<Text9916, Text9917>>)
        /\ BookIs(j, 4, <<Text9916, Text9916Plus>>)
        /\ trace[j].arg.text = << >>
        /\ trace[j].arg.regs # << >>
        /\ BookIs(k, 4, <<Text9916, Text9916Plus>>)
        /\ trace[k].arg.text # << >>
        /\ Len(InputSegment(j)) = 1

\* C15: the side of an execution is determined by the parity of the
\* counter, so two consecutively generated executions have opposite sides;
\* the counter is shared by all instruments and all execution service
\* instances, so the alternation is over the global sequence.
C15_SidesAlternateGlobally ==
    \A k1, k2 \in Generated :
        /\ (trace[k1].arg.order.side = trace[k2].arg.order.side)
           <=> (trace[k1].arg.counter % 2 = trace[k2].arg.counter % 2)
        /\ (k1 < k2 /\ \A m \in Generated : ~(k1 < m /\ m < k2))
           => /\ trace[k1].arg.order.side # trace[k2].arg.order.side
              /\ trace[k2].arg.counter = trace[k1].arg.counter + 1

\* Two consecutive executions came from different service instances and
\* different instruments, and a third one followed.
C15_Witness ==
    \E k1, k2, k3 \in Generated :
        /\ k1 < k2 /\ k2 < k3
        /\ Cardinality(Generated) = 3
        /\ trace[k1].who # trace[k2].who
        /\ trace[k1].arg.order.product # trace[k2].arg.order.product
        /\ trace[k3].arg.order.product = trace[k1].arg.order.product

\* The order book of the execution generated at k.
BookOf(k) == trace[k - 1].arg.book

\* C16: an execution on the BID side has the best bid price and the
\* quantity of the best offer level as visible quantity; an execution on
\* the OFFER side has the best offer price and the quantity of the best
\* bid level.
C16_CrossAtOwnPriceOtherQuantity ==
    \A k \in Generated :
        /\ k > 1
        /\ ExecuteCallAt(k - 1)
        /\ FullBook(BookOf(k))
           => LET o == trace[k].arg.order
                  bid0 == BookOf(k).bidStack[1]
                  offer0 == BookOf(k).offerStack[1]
              IN  /\ o.side \in {"BID", "OFFER"}
                  /\ o.product = BookOf(k).product
                  /\ o.side = "BID"
                     => /\ o.price = bid0.price
                        /\ o.visibleQuantity = offer0.quantity
                  /\ o.side = "OFFER"
                     => /\ o.price = offer0.price
                        /\ o.visibleQuantity = bid0.quantity

\* An execution on each side was generated from a book whose two levels
\* differ in price and in quantity.
C16_Witness ==
    \E k1, k2 \in Generated :
        /\ trace[k1].arg.order.side = "BID"
        /\ trace[k2].arg.order.side = "OFFER"
        /\ FullBook(BookOf(k1)) /\ FullBook(BookOf(k2))
        /\ BookOf(k1).bidStack[1].quantity # BookOf(k1).offerStack[1].quantity
        /\ BookOf(k2).bidStack[1].price # BookOf(k2).offerStack[1].price

\* C17: the hidden quantity of a generated execution with visible
\* quantity q >= 0 is floor(0.9 * q), that is (9 * q) div 10.
C17_HiddenIsNineTenthsRoundedDown ==
    \A k \in Generated :
        LET o == trace[k].arg.order
        IN  o.visibleQuantity >= 0
            => /\ 10 * o.hiddenQuantity <= 9 * o.visibleQuantity
               /\ 9 * o.visibleQuantity < 10 * o.hiddenQuantity + 10

\* Executions of 15 (hidden 13), of 7 (hidden 6) and of a multiple of ten
\* were generated.
C17_Witness ==
    \E k1, k2, k3 \in Generated :
        /\ trace[k1].arg.order.visibleQuantity = 15
        /\ trace[k1].arg.order.hiddenQuantity = 13
        /\ trace[k2].arg.order.visibleQuantity = 7
        /\ trace[k2].arg.order.hiddenQuantity = 6
        /\ trace[k3].arg.order.visibleQuantity % 10 = 0
        /\ trace[k3].arg.order.visibleQuantity > 0

\* The number a decimal text stands for.
RECURSIVE DecimalValue(_)
DecimalValue(text) ==
    IF text = << >> THEN 0
    ELSE 10 * DecimalValue(SubSeq(text, 1, Len(text) - 1))
         + (CharCode(text[Len(text)]) - 48)

\* C18: every generated ExecutionOrder is a MARKET order that is not a
\* child order, whose order identifier and parent order identifier are
\* both the counter value at generation; the counter grows by one per
\* generated execution, so the identifiers are 1, 2, 3, ... in generation
\* order and no two executions share one.
C18_IdentifiersFollowTheCounter ==
    \A k \in Generated :
        LET o == trace[k].arg.order
            nth == Cardinality({m \in Generated : m <= k})
        IN  /\ o.orderType = "MARKET"
            /\ o.isChildOrder = FALSE
            /\ o.parentOrderId = o.orderId
            /\ o.orderId # << >>
            /\ \A c \in DOMAIN o.orderId :
                  \E d \in DOMAIN DigitChars : o.orderId[c] = DigitChars[d]
            /\ DecimalValue(o.orderId) = trace[k].arg.counter
            /\ trace[k].arg.counter = trace[k - 1].arg.counter + 1
            /\ trace[k].arg.counter = nth
            /\ \A m \in Generated :
                  m # k => trace[m].arg.order.orderId # o.orderId

\* Three executions were generated, for two instruments.
C18_Witness ==
    \E k1, k2, k3 \in Generated :
        /\ trace[k1].arg.order.orderId = <<"1">>
        /\ trace[k2].arg.order.orderId = <<"2">>
        /\ trace[k3].arg.order.orderId = <<"3">>
        /\ trace[k1].arg.order.product # trace[k2].arg.order.product


\* The inquiries entering the inquiry stage in `events`, in order.
RECURSIVE Entering(_)
Entering(events) ==
    IF events = << >> THEN << >>
    ELSE LET rest == Entering(SubSeq(events, 1, Len(events) - 1))
             e == events[Len(events)]
         IN  IF e.ev = "OnMessage" /\ e.who = "inquiry_service"
             THEN Append(rest, e.arg) ELSE rest

\* The line at i is an inquiries line that becomes an inquiry.
InquiryLine(i) ==
    /\ trace[i].ev = "getline"
    /\ trace[i].who = "inquiry_connector"
    /\ trace[i].arg.tokens >= 3

\* Publish was called at i with a RECEIVED inquiry.
PublishReceivedAt(i) ==
    /\ trace[i].ev = "call"
    /\ trace[i].who = "InquiryConnector::Publish"
    /\ trace[i].arg.state = "RECEIVED"

\* OnMessage of the adapter was called at i by a caller.
OnMessageCallAt(i) ==
    /\ trace[i].ev = "call"
    /\ trace[i].who = "InquiryConnector::OnMessage"

\* C19: an inquiry submitted in RECEIVED state results in exactly two
\* further events for its identifier re-entering the inquiry stage, QUOTED
\* first and DONE second, and no REJECTED event: so for a line of the
\* inquiries file, for a RECEIVED inquiry handed to the adapter's
\* OnMessage, and for a RECEIVED inquiry handed to its Publish.
C19_ReceivedThenQuotedThenDone ==
    \A i \in DOMAIN trace :
        /\ InquiryLine(i)
           => LET e == Entering(InputSegment(i))
              IN  /\ Len(e) = 3
                  /\ \A k \in 1..3 : e[k].inquiryId = trace[i].arg.inqId
                  /\ e[1].state = "RECEIVED"
                  /\ e[2].state = "QUOTED"
                  /\ e[3].state = "DONE"
        /\ PublishReceivedAt(i)
           => LET e == Entering(InputSegment(i))
              IN  /\ Len(e) = 2
                  /\ \A k \in 1..2 : e[k].inquiryId = trace[i].arg.inquiryId
                  /\ e[1].state = "QUOTED"
                  /\ e[2].state = "DONE"
        /\ (OnMessageCallAt(i) /\ trace[i].arg.state = "RECEIVED")
           => LET e == Entering(InputSegment(i))
              IN  /\ Len(e) = 3
                  /\ \A k \in 1..3 : e[k].inquiryId = trace[i].arg.inquiryId
                  /\ e[1].state = "RECEIVED"
                  /\ e[2].state = "QUOTED"
                  /\ e[3].state = "DONE"

\* C20: when the adapter advances a RECEIVED inquiry to QUOTED, the QUOTED
\* event and the DONE event after it carry an assigned price: a price
\* other than the "not yet set" value -1 the inquiry was created with.
C20_QuotedCarriesAPrice ==
    \A i \in DOMAIN trace :
        (\/ InquiryLine(i)
         \/ PublishReceivedAt(i)
         \/ OnMessageCallAt(i) /\ trace[i].arg.state = "RECEIVED")
        => LET e == Entering(InputSegment(i))
           IN  \A k \in DOMAIN e :
                  e[k].state \in {"QUOTED", "DONE"} => e[k].price # -1

---------------------------------------------------------------------------
(* The risk stage.                                                         *)

\* The Positions handed to RiskService::AddPosition: the calls of the
\* risk listener of the position stage on a stored Position.
PositionPassed(k) ==
    /\ trace[k].ev = "ProcessAdd"
    /\ trace[k].who = "risk_service_listener"
    /\ trace[k].arg.valid

\* C21: for every Position passed to RiskService::AddPosition, the
\* RiskMeasure notified to the listeners of the risk stage has the
\* instrument of the position, a per-unit sensitivity of 0.02 and a
\* quantity equal to the aggregate of the position, and the total risk
\* written by the risk record sink is 0.02 times that aggregate, for every
\* aggregate, zero and negative ones included.
C21_MeasureOfThePosition ==
    \A k \in DOMAIN trace :
        PositionPassed(k) =>
            LET X == trace[k].arg.key
                aggregate == NetUpTo(X, k)
            IN  /\ k + 3 <= Len(trace)
                /\ trace[k + 2].ev = "ProcessAdd"
                /\ trace[k + 2].who = "history_risk_listener"
                /\ trace[k + 2].arg
                     = [product |-> X, pv01 |-> 2, quantity |-> aggregate]
                /\ trace[k + 3].ev = "RiskConnector::Publish"
                /\ trace[k + 3].who = X
                /\ trace[k + 3].arg.totalRisk = 2 * aggregate

\* A measure of a negative aggregate and later one of a zero aggregate,
\* with a trade on a book other than the first.
C21_Witness ==
    \E i, j \in DOMAIN trace :
        /\ i < j
        /\ trace[i].ev = "RiskConnector::Publish"
        /\ trace[j].ev = "RiskConnector::Publish"
        /\ trace[i].arg.totalRisk < 0
        /\ trace[j].arg.totalRisk = 0
        /\ \E k \in DOMAIN trace :
              /\ trace[k].ev = "UpdatePosition"
              /\ trace[k].arg.book # "TRSY1"

\* The last measure AddPosition computed for X, when there is one.
MeasuredAt(X) ==
    {k \in DOMAIN trace : trace[k].ev = "AddPosition" /\ trace[k].who = X}

LatestMeasure(X) ==
    trace[CHOOSE k \in MeasuredAt(X) : \A j \in MeasuredAt(X) : j <= k].arg

\* C22: after AddPosition has processed a Position of instrument X, the
\* keyed state of the risk stage holds the latest RiskMeasure of X, and
\* GetData(X) returns it.
C22_LatestMeasureIsKept ==
    \A X \in Tickers :
        MeasuredAt(X) # {} =>
            /\ X \in DOMAIN data
            /\ data[X] = LatestMeasure(X)
            /\ RiskGetData(Cur(NoUB, {}), X) = "reference"

\* C30: GetBucketedRisk is an explicit 'not supported' operation: for
\* every sector its outcome is UnsupportedOperation, never a RiskMeasure,
\* and the call leaves the state of the risk stage as it was.
C30_BucketedRiskUnsupported ==
    \A k \in DOMAIN trace :
        trace[k].ev = "GetBucketedRisk" =>
            /\ trace[k].arg.outcome = "UnsupportedOperation"
            /\ k < Len(trace) => trace[k + 1].ev # "abort"

---------------------------------------------------------------------------
(* The price codec.                                                        *)

\* C23: for every decimal x that is an exact multiple of 1/64 with whole
\* part 99 or 100, decoding the text the encoder writes for x gives x.
C23_RoundTrip ==
    \A k \in DOMAIN trace :
        trace[k].ev = "round trip" =>
            trace[k].arg.decoded = trace[k].arg.price

\* C24: for every text "<whole>-<frac>[+]" with whole 99 or 100 and frac
\* 00 to 31, the decoder returns whole + frac/32, plus 1/64 when the '+'
\* is there.
C24_CanonicalTextDecoded ==
    \A w \in {99, 100}, f \in 0..31, p \in BOOLEAN :
        \A k \in DOMAIN trace :
            /\ trace[k].ev = "ParsePriceFormat"
            /\ trace[k].who = generateFractionalPrice(w, f, p)
            => /\ trace[k].arg.outcome = "decimal"
               /\ trace[k].arg.value
                    = w * 256 + f * 8 + (IF p THEN 4 ELSE 0)

\* C26: decoding a price text that does not match the form of the codec
\* (a missing fraction digit, a char that is no digit, a whole part
\* other than 99 and 100) yields MalformedInput and no decimal.
C26_MalformedTextRejected ==
    \A k \in DOMAIN trace :
        /\ trace[k].ev = "ParsePriceFormat"
        /\ trace[k].who \notin CanonicalTexts
        => trace[k].arg.outcome = "MalformedInput"

---------------------------------------------------------------------------
(* The market data flow and the ingestion adapters.                        *)

\* The number of fields of a well-formed record of each input file.
RequiredFields(who) ==
    CASE who = "trade_connector" -> 6
      [] who = "pricing_connector" -> 3
      [] who = "inquiry_connector" -> 3
      [] who = "mrkt_data_connector" -> 11

\* The line read at i has too few fields.
ShortLine(i) ==
    /\ trace[i].ev = "getline"
    /\ trace[i].arg.tokens < RequiredFields(trace[i].who)

\* C25: for every ingestion adapter (trades, quotes, order books,
\* inquiries), a record with too few fields, such as an order-book line
\* with fewer than ten prices, is skipped: nothing is notified, no state
\* changes, and the adapter goes on to the next record.
C25_MalformedRecordSkipped ==
    \A i \in DOMAIN trace :
        ShortLine(i) =>
            /\ InputSegment(i) = << >>
            /\ i = Len(trace) => ~crashed

\* C28: every ExecutionOrder the TradeBookingServiceListener receives by
\* its add-callback is made a Trade of the order's instrument and handed
\* to the trade-booking service before the callback returns, so that the
\* execution reaches the position of the instrument.
C28_ExecutionIsBooked ==
    \A k \in DOMAIN trace :
        /\ trace[k].ev = "ProcessAdd"
        /\ trace[k].who = "trade_booking_listener_ins"
        => /\ k < Len(trace)
           /\ trace[k + 1].ev = "OnMessage"
           /\ trace[k + 1].arg.product = trace[k].arg.product

\* C29: in the wiring of the market data flow, every order-book update on
\* which the algo execution stage decides to execute has its
\* ExecutionOrder delivered to the execution service and to the
\* execution record sink.
C29_ExecutionReachesTheSink ==
    \A i \in DOMAIN trace :
        /\ trace[i].ev = "getline"
        /\ trace[i].who = "mrkt_data_connector"
        => \A k \in DOMAIN InputSegment(i) :
              InputSegment(i)[k].ev = "AlgoExecution" =>
                  /\ \E j \in DOMAIN InputSegment(i) :
                        /\ j > k
                        /\ InputSegment(i)[j].ev = "ExecuteOrder"
                        /\ InputSegment(i)[j].arg.order
                             = InputSegment(i)[k].arg.order
                  /\ \E j \in DOMAIN InputSegment(i) :
                        /\ j > k
                        /\ InputSegment(i)[j].ev
                             = "ExecutionConnector::Publish"
                        /\ InputSegment(i)[j].who
                             = InputSegment(i)[k].arg.order.product

---------------------------------------------------------------------------
(* The callbacks of the listeners.                                         *)

\* The step is a call of the remove- or update-callback of a listener.
CallbackStep ==
    /\ Len(trace') > Len(trace)
    /\ trace'[Len(trace) + 1].ev = "call"
    /\ trace'[Len(trace) + 1].who \in {"ProcessRemove", "ProcessUpdate"}

\* C27: Notify only ever invokes the add-callback, and for every listener
\* of the wiring the remove- and update-callbacks are no-ops: a call of
\* one of them changes no state of any stage, notifies nobody and writes
\* no record.
C27_RemoveAndUpdateAreNoOps ==
    [][CallbackStep =>
          /\ UNCHANGED <<listeners, name_p, data, now, last_quote_time,
                         counter, inquiries, crashed>>
          /\ Len(trace') = Len(trace) + 1
          /\ result' = "ok"]_vars

\* The remove- and the update-callback of the listener that books trades
\* into the position stage were both called.
C27_Witness ==
    \E i, j \in DOMAIN trace :
        /\ trace[i].ev = "call" /\ trace[i].who = "ProcessRemove"
        /\ trace[j].ev = "call" /\ trace[j].who = "ProcessUpdate"
        /\ trace[i].arg.listener = "position_listener"
        /\ trace[j].arg.listener = "position_listener"

---------------------------------------------------------------------------
(* Frame of a trade, and the cascade of the trades and prices flows.       *)

\* The step is a call of AddTrade for an instrument of the catalog and one
\* of its three books.
KnownTradeStep ==
    /\ Len(trace') > Len(trace)
    /\ trace'[Len(trace) + 1].ev = "AddTrade"
    /\ trace'[Len(trace) + 1].arg.product \in Tickers
    /\ trace'[Len(trace) + 1].arg.book \in BookSet

\* C31: an AddTrade for a known instrument I and a known book B with
\* quantity q changes only the quantity of book B of the Position of I,
\* by +q for BUY and by -q for SELL; the other two books of I and every
\* book of every other instrument are unchanged.
C31_OnlyTheBookOfTheTrade ==
    [][KnownTradeStep =>
          LET trade == trace'[Len(trace) + 1].arg
              delta == IF trade.side = "BUY" THEN trade.quantity
                       ELSE 0 - trade.quantity
          IN  \A X \in Tickers, b \in BookSet :
                 name_p'[X].positions[b]
                   = IF X = trade.product /\ b = trade.book
                     THEN name_p[X].positions[b] + delta
                     ELSE name_p[X].positions[b]]_vars

\* A SELL on one instrument after a trade on another book of another
\* instrument.
C31_Witness ==
    \E i, j \in DOMAIN trace :
        /\ i < j
        /\ trace[i].ev = "UpdatePosition" /\ trace[j].ev = "UpdatePosition"
        /\ trace[i].who # trace[j].who
        /\ trace[i].arg.book # trace[j].arg.book
        /\ trace[j].arg.side = "SELL"

\* What the trace holds between the call of AddTrade at i and its end.
TradeSegment(i) == SubSeq(trace, i + 1, NextIdx(i, {"AddTrade ended"}) - 1)

\* AddTrade was called at i for a catalog instrument and book.
KnownTradeAt(i) ==
    /\ trace[i].ev = "AddTrade"
    /\ trace[i].arg.product \in Tickers
    /\ trace[i].arg.book \in BookSet

\* C32: in the default trade wiring, each trade applied for a known
\* instrument and book produces exactly one position notification (one
\* call of each listener of the position stage), carrying the Position
\* after the update, and exactly one RiskMeasure, whose quantity is the
\* aggregate of the instrument including that trade.
C32_OneNotificationOneMeasure ==
    \A i \in DOMAIN trace :
        KnownTradeAt(i) =>
            LET X == trace[i].arg.product
                seg == TradeSegment(i)
                aggregate == NetUpTo(X, i)
                hist == Where(seg, "ProcessAdd", "history_position_listener")
                risk == Where(seg, "ProcessAdd", "risk_service_listener")
                recs == Where(seg, "PositionConnector::Publish", X)
                meas == Where(seg, "AddPosition", X)
                sent == Where(seg, "ProcessAdd", "history_risk_listener")
            IN  /\ Cardinality(hist) = 1 /\ Cardinality(risk) = 1
                /\ \A k \in hist \cup risk :
                      seg[k].arg = [valid |-> TRUE, key |-> X]
                /\ Cardinality(recs) = 1
                /\ \A k \in recs : seg[k].arg.aggPos = aggregate
                /\ Cardinality(meas) = 1 /\ Cardinality(sent) = 1
                /\ \A k \in meas \cup sent :
                      /\ seg[k].arg.product = X
                      /\ seg[k].arg.quantity = aggregate

\* A second trade on an instrument that already holds a position.
C32_Witness ==
    \E i, j \in DOMAIN trace :
        /\ i < j
        /\ KnownTradeAt(i) /\ KnownTradeAt(j)
        /\ trace[i].arg.product = trace[j].arg.product
        /\ trace[i].arg.book # trace[j].arg.book
        /\ trace[Len(trace)].ev = "AddTrade ended"

\* The calls and effects of the cascade of one quote of the prices flow,
\* in the order of a depth-first walk of the wiring of main(); the GUI
\* record is there when the limiter delivered the quote.
QuoteShape(ticker, delivered) ==
    << <<"OnMessage", "pricing_service">>,
       <<"ProcessAdd", "gui_listener">>,
       <<"ProvideData", "gui_service">> >>
    \o (IF delivered THEN << <<"GUIConnector::Publish", ticker>> >>
        ELSE << >>)
    \o << <<"return", "gui_listener">>,
          <<"ProcessAdd", "algo_streaming_listener">>,
          <<"PublishPrice", "bond_algo_streaming_service">>,
          <<"ProcessAdd", "streaming_listener">>,
          <<"PublishPrice", "streaming_service">>,
          <<"ProcessAdd", "hist_streaming_listener">>,
          <<"StreamingConnector::Publish", ticker>>,
          <<"return", "hist_streaming_listener">>,
          <<"return", "streaming_listener">>,
          <<"return", "algo_streaming_listener">> >>

\* A trade was handed to the booking service at i.
BookTradeAt(i) ==
    /\ trace[i].ev = "call"
    /\ trace[i].who = "TradeBookingService::OnMessage"

\* C33: propagation is depth-first in registration order.  Within the
\* cascade of one trade the position record is persisted before the risk
\* measure of the trade is computed and persisted; within the cascade of
\* one quote the GUI delivery is decided before the PriceStream of the
\* quote is built; and the whole subtree of a listener completes before
\* the next sibling listener is invoked.
C33_DepthFirstInRegistrationOrder ==
    \A i \in DOMAIN trace :
        /\ BookTradeAt(i)
           => Shape(InputSegment(i)) = CascadeShape(trace[i].arg.product)
        /\ QuoteLine(i)
           => Shape(InputSegment(i))
                \in {QuoteShape(trace[i].arg.ticker, dl) : dl \in BOOLEAN}

\* The cascade of a trade, the cascade of a quote the GUI limiter
\* delivered and the cascade of a quote it dropped have all run.
C33_Witness ==
    /\ \E i \in DOMAIN trace : BookTradeAt(i)
    /\ \E i, j \in DOMAIN trace :
          /\ QuoteLine(i) /\ QuoteLine(j)
          /\ Where(InputSegment(i), "GUIConnector::Publish",
                   trace[i].arg.ticker) # {}
          /\ Where(InputSegment(j), "GUIConnector::Publish",
                   trace[j].arg.ticker) = {}

\* The step is a call of AddTrade.
TradeStep ==
    /\ Len(trace') > Len(trace)
    /\ trace'[Len(trace) + 1].ev = "AddTrade"

\* The stored quantities right after the update of the trade: the book of
\* the trade moved by the signed quantity when the instrument and the
\* book are stored ones, and nothing moved otherwise.
AfterUpdate(trade) ==
    [X \in Tickers |->
        [b \in BookSet |->
            IF X = trade.product /\ b = trade.book
            THEN name_p[X].positions[b]
                 + (IF trade.side = "BUY" THEN trade.quantity
                    ELSE 0 - trade.quantity)
            ELSE name_p[X].positions[b]]]

\* C37: listeners never change the state of the stage that notified them.
\* When the cascade of a trade is over (the history and risk listeners
\* were called with a reference to the stage's own Position), every
\* per-book quantity of the position stage has the value it had right
\* after the update of the trade and before the notification, which is
\* also what the first listener recorded.
C37_ListenersLeaveThePositions ==
    [][TradeStep =>
          LET trade == trace'[Len(trace) + 1].arg
              new == SubSeq(trace', Len(trace) + 2, Len(trace'))
          IN  /\ \A X \in Tickers, b \in BookSet :
                    name_p'[X].positions[b] = AfterUpdate(trade)[X][b]
              /\ DOMAIN name_p' = Tickers
              /\ \A k \in DOMAIN new :
                    (/\ new[k].ev = "PositionConnector::Publish"
                     /\ new[k].who \in Tickers)
                    => LET p == name_p'[new[k].who].positions
                       IN  /\ new[k].arg.p1 = p["TRSY1"]
                           /\ new[k].arg.p2 = p["TRSY2"]
                           /\ new[k].arg.p3 = p["TRSY3"]]_vars

\* The cascade of a trade on a Position that already held a quantity ran
\* to the end, through the history listener and the risk listener.
C37_Witness ==
    \E i, j \in DOMAIN trace :
        /\ i < j
        /\ KnownTradeAt(i) /\ KnownTradeAt(j)
        /\ trace[i].arg.product = trace[j].arg.product
        /\ trace[i].arg.side = "BUY" /\ trace[i].arg.quantity = 2
        /\ trace[j].arg.side = "SELL" /\ trace[j].arg.quantity = 1
        /\ \E k \in DOMAIN trace :
              /\ k > j
              /\ trace[k].ev = "return"
              /\ trace[k].who = "risk_service_listener"
---------------------------------------------------------------------------
(* The window of the GUI limiter.                                          *)

\* The step is a quote received by GUIService::ProvideData.
ArrivalStep ==
    /\ Len(trace') > Len(trace)
    /\ trace'[Len(trace) + 1].ev = "ProvideData"

\* The quote of the step was delivered to the GUI connector.
DeliveredInStep ==
    /\ Len(trace') = Len(trace) + 2
    /\ trace'[Len(trace) + 2].ev = "GUIConnector::Publish"

\* C34: a quote dropped by GUIService::ProvideData leaves the recorded
\* last-delivery time unchanged; only a delivered quote restarts the
\* 300 ms window.  So, also in a stream of quotes less than 300 ms apart,
\* a quote received more than 300 ms after the previous delivery is
\* delivered.
C34_DroppedQuoteKeepsTheWindow ==
    [][ArrivalStep =>
          LET received == trace'[Len(trace) + 1].arg.time
              last == LastDelivery(Len(trace) + 1)
          IN  /\ ~DeliveredInStep => last_quote_time' = last_quote_time
              /\ DeliveredInStep => last_quote_time' = received
              /\ received - last_quote_time > 300 => DeliveredInStep
              /\ (last # 0 /\ received - trace[last].arg.time > 300)
                 => DeliveredInStep]_vars

\* A delivered quote, a quote dropped 200 ms later, and a quote delivered
\* 200 ms after the dropped one.
C34_Witness ==
    \E i, j, k \in DOMAIN trace :
        /\ Arrival(i) /\ Arrival(j) /\ Arrival(k)
        /\ Delivered(i) /\ ~Delivered(j) /\ Delivered(k)
        /\ trace[j].arg.time - trace[i].arg.time = 200
        /\ trace[k].arg.time - trace[j].arg.time = 200

\* C35: the rate limiter keeps one last-delivery time per GUIService
\* instance, not per instrument: a quote for an instrument B received
\* 300 ms or less after a delivered quote for another instrument A is
\* dropped.
C35_OneWindowForAllInstruments ==
    \A i \in DOMAIN trace :
        (/\ Arrival(i)
         /\ LastDelivery(i) # 0
         /\ trace[LastDelivery(i)].who # trace[i].arg.price.product
         /\ trace[i].arg.time - ReceiptOfLastDelivered(i) <= 300)
        => ~Delivered(i)

\* A quote of one instrument was delivered, with a record stamped 1 ms
\* after its receipt, and a quote of another instrument, its first,
\* received 100 ms after that record was dropped.
C35_Witness ==
    \E i \in DOMAIN trace :
        /\ Arrival(i)
        /\ LastDelivery(i) # 0
        /\ trace[LastDelivery(i)].who # trace[i].arg.price.product
        /\ trace[i].arg.time - ReceiptOfLastDelivered(i) = 101
        /\ trace[LastDelivery(i)].arg.time = ReceiptOfLastDelivered(i) + 1
        /\ ~Delivered(i)
        /\ \A k \in 1..(i - 1) :
              Arrival(k)
              => trace[k].arg.price.product # trace[i].arg.price.product

---------------------------------------------------------------------------
(* The inquiry lifecycle.                                                  *)

\* The place of a state along RECEIVED, QUOTED, DONE.
StateRank(state) ==
    CASE state = "RECEIVED" -> 1
      [] state = "QUOTED" -> 2
      [] state = "DONE" -> 3
      [] OTHER -> 3

\* C36: for each inquiry identifier, the states entering the inquiry
\* stage only move forward along RECEIVED, QUOTED, DONE; once DONE has
\* entered for an identifier, no later event of that identifier carries
\* another state, also when a second input record has the same
\* identifier.
C36_StatesOnlyMoveForward ==
    LET e == Entering(trace)
    IN  \A a, b \in DOMAIN e :
           (a < b /\ e[a].inquiryId = e[b].inquiryId)
           => StateRank(e[a].state) <= StateRank(e[b].state)

\* Publish was called at i by a caller.
PublishCallAt(i) ==
    /\ trace[i].ev = "call"
    /\ trace[i].who = "InquiryConnector::Publish"

\* C38: the inquiry cascade terminates.  InquiryConnector::Publish
\* produces further events only for a RECEIVED inquiry; published QUOTED,
\* DONE and REJECTED inquiries re-enter nothing into the stage; so a
\* published RECEIVED inquiry enters the stage twice, as QUOTED and then
\* as DONE, and an inquiry read from the file or handed to the adapter's
\* OnMessage enters it once.
C38_InquiryCascadeTerminates ==
    \A i \in DOMAIN trace :
        /\ PublishCallAt(i)
           => LET seg == InputSegment(i)
              IN  IF trace[i].arg.state = "RECEIVED"
                  THEN /\ Len(Entering(seg)) = 2
                       /\ Entering(seg)[1].state = "QUOTED"
                       /\ Entering(seg)[2].state = "DONE"
                  ELSE /\ Entering(seg) = << >>
                       /\ Len(seg) = 1
        /\ InquiryLine(i) => Len(Entering(InputSegment(i))) = 1
        /\ OnMessageCallAt(i) => Len(Entering(InputSegment(i))) = 1

\* A QUOTED inquiry was published, a RECEIVED inquiry was published and
\* entered the stage as QUOTED and as DONE, and a REJECTED inquiry was
\* handed to the adapter's OnMessage.
C38_Witness ==
    \E i, j, k \in DOMAIN trace :
        /\ PublishCallAt(i) /\ trace[i].arg.state = "QUOTED"
        /\ PublishCallAt(j) /\ trace[j].arg.state = "RECEIVED"
        /\ LET e == Entering(InputSegment(j))
           IN  Len(e) = 2 /\ e[1].state = "QUOTED" /\ e[2].state = "DONE"
        /\ OnMessageCallAt(k) /\ trace[k].arg.state = "REJECTED"
        /\ Len(Entering(InputSegment(k))) = 1

(* Execute on a book with an empty stack. *)

\* A stack of the book has no level 0.
EmptyStack(book) == Len(book.bidStack) = 0 \/ Len(book.offerStack) = 0

\* C39: Execute never reads level 0 of an empty stack: for an OrderBook
\* whose bid stack or offer stack is empty, Execute generates no
\* execution, notifies no listener, leaves the counter unchanged and
\* returns.
C39_EmptyStackNeverRead ==
    \A i \in DOMAIN trace :
        (ExecuteCallAt(i) /\ EmptyStack(trace[i].arg.book))
        => LET a == trace[i].arg
               seg == InputSegment(i)
           IN  /\ Len(seg) = 1
               /\ seg[1].ev = "Execute ended"
               /\ seg[1].arg.counter = a.counter

===========================================================================
